---------------------------- MODULE Spec2Model ----------------------------
(***************************************************************************)
(* Chain-of-custody backend: the relational tables (evidence, custody,     *)
(* transfers, audit_logs, evidence_files, analysis), the encrypted blob    *)
(* directory and the request handlers of backend/api that mutate them.     *)
(*                                                                         *)
(* Every handler is modelled in two parts, split where the code's database *)
(* session first writes:                                                   *)
(*   <handler>_read   the queries and checks the handler runs before its   *)
(*                    first write (session reads see the committed state), *)
(*                    ending in an HTTP error code or in the unit of work  *)
(*                    the session holds;                                   *)
(*   <handler>_write  the flush/commit of that unit of work, one database  *)
(*                    write transaction.                                   *)
(* SpecSeq runs each handler as one step (read then write, nothing in      *)
(* between).  Spec runs the handlers of several workers concurrently: the  *)
(* read part and the write part of a request are separate steps, and the   *)
(* write transactions are serialized (the default database is SQLite,      *)
(* backend/core/config.py:17, one writer at a time).                       *)
(***************************************************************************)
EXTENDS Integers, Sequences, FiniteSets, TLC

(***************************************************************************)
(* Bounds of the model.                                                    *)
(***************************************************************************)
MaxAudit == 4        \* audit_logs rows a run of Spec writes
SeqMaxAudit == 3     \* audit_logs rows a run of SpecSeq writes
MaxClock == 1        \* wall clock, in half seconds

VARIABLES
  evidence,        \* table evidence: Seq of rows, row id = index
  evidence_files,  \* table evidence_files
  custody,         \* table custody
  transfers,       \* table transfers
  audit_logs,      \* table audit_logs
  analysis,        \* table analysis
  analysis_files,  \* table analysis_files
  storage,         \* backend/storage: cipher filename -> encrypted bytes
  clock,           \* wall clock, in half seconds
  sess,            \* per worker: the unit of work its session holds, or Idle
  op_count         \* history: per evidence id, the mutating requests that succeeded

vars == <<evidence, evidence_files, custody, transfers, audit_logs, analysis,
          analysis_files, storage, clock, sess, op_count>>
tables == <<evidence, evidence_files, custody, transfers, audit_logs, analysis,
            analysis_files, storage>>

(***************************************************************************)
(* Users (table users is maintained by the auth layer and is fixed here):  *)
(* one user per role.                                                      *)
(***************************************************************************)
Users == {1, 2, 3}
NoUser == 4          \* an id with no row in users
AdminUser == 5       \* the administrator; takes part in the runs of SpecHandOver
UserRole(u) ==
  CASE u = 1 -> "COLLECTOR" [] u = 2 -> "ANALYST" [] u = AdminUser -> "ADMIN"
    [] OTHER -> "AUDITOR"
UserName(u) == <<"name", u>>
UserExists(u) == u \in Users \cup {AdminUser}

Workers == {1, 2}    \* concurrent request workers

(***************************************************************************)
(* Sequence helpers.                                                       *)
(***************************************************************************)
Ids(table) == 1..Len(table)
\* .filter(...).first() over the ids matching the filter: the lowest id, 0
\* when there is none
FirstId(matching) ==
  IF matching = {} THEN 0
  ELSE CHOOSE i \in matching : \A j \in matching : i <= j
\* .order_by(id.desc()).first(): the highest id, 0 when there is none
LastId(matching) ==
  IF matching = {} THEN 0
  ELSE CHOOSE i \in matching : \A j \in matching : j <= i
\* .order_by(id.asc()).all(): the ids in ascending order
RECURSIVE SelectIds(_)
SelectIds(matching) ==
  IF matching = {} THEN <<>>
  ELSE <<FirstId(matching)>> \o SelectIds(matching \ {FirstId(matching)})

(***************************************************************************)
(* Time.  A datetime is [sec, us, tz]; clock counts half seconds.          *)
(***************************************************************************)
HalfSecondUs == 500000
\* datetime.now(timezone.utc)
NowUtc == [sec |-> clock \div 2, us |-> (clock % 2) * HalfSecondUs, tz |-> "UTC"]
\* datetime.utcnow(): naive
UtcNow == [sec |-> clock \div 2, us |-> (clock % 2) * HalfSecondUs, tz |-> "naive"]
\* dt.replace(microsecond=0)
TruncateMicro(dt) == [dt EXCEPT !.us = 0]
\* dt.replace(tzinfo=timezone.utc) when tzinfo is None
ForceUtc(dt) == IF dt.tz = "naive" THEN [dt EXCEPT !.tz = "UTC"] ELSE dt
\* dt.isoformat(): seconds, the fraction only when non-zero, the offset only when aware
IsoFormat(dt) ==
  <<"T", dt.sec>> \o (IF dt.us = 0 THEN <<>> ELSE <<".", dt.us>>)
                  \o (IF dt.tz = "UTC" THEN <<"+00:00">> ELSE <<>>)
\* datetime.fromisoformat(s) of a string IsoFormat wrote
FromIsoFormat(s) ==
  [sec |-> s[2],
   us  |-> IF Len(s) >= 4 THEN s[4] ELSE 0,
   tz  |-> IF Len(s) \in {3, 5} THEN "UTC" ELSE "naive"]
\* A DateTime(timezone=True) column on SQLite: the offset is not stored, the
\* value read back is naive.
ColumnDateTime(dt) == [dt EXCEPT !.tz = "naive"]
\* A nullable DateTime column holding NULL
NoneDt == [sec |-> 0, us |-> 0, tz |-> "NULL"]

(***************************************************************************)
(* core/audit.py                                                           *)
(***************************************************************************)
\* hashlib.sha256(...).hexdigest(): an injective symbolic digest
Sha256(data) == <<"sha256", data>>
GenesisHash == <<>>    \* the empty string ""

\* A faulty canonical form that leaves the details out of the hashed payload
CanonicalJson_no_details(entry_data) ==
  << <<"action", entry_data.action>>,
     <<"actor_user_id", entry_data.actor_user_id>>,
     <<"evidence_id", entry_data.evidence_id>>,
     <<"ts_utc", entry_data.ts_utc>> >>
\* A faulty canonical form that leaves the actor out of the hashed payload
CanonicalJson_no_actor(entry_data) ==
  << <<"action", entry_data.action>>,
     <<"details", entry_data.details>>,
     <<"evidence_id", entry_data.evidence_id>>,
     <<"ts_utc", entry_data.ts_utc>> >>

\* json.dumps(entry_data, sort_keys=True, separators=(',', ':')): the pairs in
\* key order
CanonicalJson(entry_data) ==
  << <<"action", entry_data.action>>,
     <<"actor_user_id", entry_data.actor_user_id>>,
     <<"details", entry_data.details>>,
     <<"evidence_id", entry_data.evidence_id>>,
     <<"ts_utc", entry_data.ts_utc>> >>

\* prev_hash + canonical_json: a hash is "" or 64 hex digits and the JSON text
\* starts with "{", so the concatenation determines both parts
compute_entry_hash(prev_hash, entry_data) ==
  Sha256(<<prev_hash, CanonicalJson(entry_data)>>)

create_audit_entry(evidence_id, actor_user_id, action, details, prev_hash) ==
  LET ts_str == IsoFormat(TruncateMicro(NowUtc))
      entry_data == [evidence_id |-> evidence_id, actor_user_id |-> actor_user_id,
                     action |-> action, details |-> details, ts_utc |-> ts_str]
  IN  [evidence_id |-> evidence_id, actor_user_id |-> actor_user_id,
       action |-> action, details |-> details, ts_utc |-> ts_str,
       prev_hash_hex |-> prev_hash,
       entry_hash_hex |-> compute_entry_hash(prev_hash, entry_data)]

\* json.dumps(details) / json.loads(details_json)
JsonDumps(details) == <<"json", details>>
JsonLoads(text) == text[2]

\* AuditLog(evidence_id=..., ..., entry_hash_hex=audit_entry["entry_hash_hex"])
\* as every handler builds it from create_audit_entry's result
AuditLog(audit_entry) ==
  [evidence_id |-> audit_entry.evidence_id,
   actor_user_id |-> audit_entry.actor_user_id,
   action |-> audit_entry.action,
   details_json |-> JsonDumps(audit_entry.details),
   ts_utc |-> ColumnDateTime(FromIsoFormat(audit_entry.ts_utc)),
   prev_hash_hex |-> audit_entry.prev_hash_hex,
   entry_hash_hex |-> audit_entry.entry_hash_hex]

\* A faulty tail read that never finds a previous entry
TailHash_genesis(logs, evidence_id) == GenesisHash

\* A faulty tail read that takes the last entry of the whole table
TailHash_global(logs, evidence_id) ==
  IF logs = <<>> THEN GenesisHash ELSE logs[Len(logs)].entry_hash_hex

\* db.query(AuditLog).filter(evidence_id == e).order_by(id.desc()).first(),
\* then: prev_audit.entry_hash_hex if prev_audit else ""
TailHash(logs, evidence_id) ==
  LET IsOf(row) == row.evidence_id = evidence_id
      last == LastId({i \in Ids(logs) : IsOf(logs[i])})
  IN  IF last = 0 THEN GenesisHash ELSE logs[last].entry_hash_hex


(***************************************************************************)
(* core/crypto.py: AES-256-GCM under the process-wide key.  Bytes are      *)
(* 0..255; the key stream and the authentication tag are symbolic.         *)
(***************************************************************************)
NonceLen == 12
TagLen == 16
compute_sha256(data) == Sha256(data)
\* the GCM key stream byte for position i under nonce (the key is fixed)
KeyStream(nonce, i) == (nonce[1] + 7 * i) % 256
GcmEncrypt(nonce, plaintext) ==
  [i \in 1..Len(plaintext) |-> (plaintext[i] + KeyStream(nonce, i)) % 256]
GcmDecrypt(nonce, ciphertext) ==
  [i \in 1..Len(ciphertext) |-> (ciphertext[i] + 256 - KeyStream(nonce, i)) % 256]
\* A faulty tag that authenticates the nonce and not the ciphertext
GcmTag_of_nonce(nonce, ciphertext) == [j \in 1..TagLen |-> <<"tag", j, nonce>>]
\* the 16-byte tag authenticating (nonce, ciphertext): byte j of a symbolic MAC
GcmTag(nonce, ciphertext) == [j \in 1..TagLen |-> <<"tag", j, nonce, ciphertext>>]

\* A faulty file format that writes the tag in front of the ciphertext
EncryptedData_tag_first(nonce, plaintext) ==
  nonce \o GcmTag(nonce, GcmEncrypt(nonce, plaintext)) \o GcmEncrypt(nonce, plaintext)

\* encrypted_data = nonce + ciphertext + encryptor.tag
EncryptedData(nonce, plaintext) ==
  nonce \o GcmEncrypt(nonce, plaintext) \o GcmTag(nonce, GcmEncrypt(nonce, plaintext))

\* generate_safe_filename(): a uuid4 name, modelled as the next unused name
generate_safe_filename(store) == <<"uuid", Cardinality(DOMAIN store) + 1>>

\* os.urandom(12): the nonces a run may draw
Nonces == { [i \in 1..NonceLen |-> 0] }

\* encrypt_file_data(plaintext) with the nonce drawn: the new storage and the
\* returned (cipher_filename, sha256_hex)
encrypt_file_data(store, nonce, plaintext) ==
  LET cipher_filename == generate_safe_filename(store)
  IN  [storage |-> [f \in DOMAIN store \cup {cipher_filename} |->
                      IF f = cipher_filename THEN EncryptedData(nonce, plaintext)
                      ELSE store[f]],
       cipher_filename |-> cipher_filename,
       sha256_hex |-> compute_sha256(plaintext)]

\* decrypt_file_data(cipher_filename): [ok, error, plaintext]
decrypt_file_data(store, cipher_filename) ==
  IF cipher_filename \notin DOMAIN store
    THEN [ok |-> FALSE, error |-> "FileNotFoundError", plaintext |-> <<>>]
  ELSE
    LET encrypted_data == store[cipher_filename]
        n == Len(encrypted_data)
        nonce == SubSeq(encrypted_data, 1, NonceLen)
        tag == SubSeq(encrypted_data, n - TagLen + 1, n)
        ciphertext == SubSeq(encrypted_data, NonceLen + 1, n - TagLen)
    IN  IF n >= NonceLen + TagLen /\ tag = GcmTag(nonce, ciphertext)
          THEN [ok |-> TRUE, error |-> "", plaintext |-> GcmDecrypt(nonce, ciphertext)]
          ELSE [ok |-> FALSE, error |-> "InvalidTag", plaintext |-> <<>>]

(***************************************************************************)
(* Requests and sessions.                                                  *)
(***************************************************************************)
Idle == [op |-> "idle"]
Fail(code, detail) == [code |-> code, detail |-> detail, uow |-> Idle]
Ok(uow) == [code |-> 200, detail |-> "", uow |-> uow]

\* Custody row of an evidence item: .filter(Custody.evidence_id == e).first()
CustodyId(evidence_id) ==
  LET IsOf(row) == row.evidence_id = evidence_id
  IN  FirstId({i \in Ids(custody) : IsOf(custody[i])})

(***************************************************************************)
(* api/evidence.py: create_evidence                                        *)
(***************************************************************************)
max_file_size == 25 * 1024 * 1024
allowed_mime_types == {"application/pdf", "image/jpeg", "image/png", "text/plain"}

can_create_evidence(user) == UserRole(user) \in {"COLLECTOR", "ANALYST", "ADMIN"}

\* validate_file(file): "" when the file passes, else the error
validate_file(file) ==
  IF file.content_type \notin allowed_mime_types THEN "File type not allowed"
  ELSE IF file.size # 0 /\ file.size > max_file_size THEN "File size exceeds maximum"
  ELSE ""

\* datetime.fromisoformat(collected_at.replace('Z', '+00:00')) raises ValueError
\* on a string that is no ISO-8601 timestamp
IsIsoString(s) == Len(s) >= 2 /\ s[1] = "T"

\* f"{agency}-{case_no}-{item_no}"; strings are sequences of characters
EvidenceIdStr(agency, case_no, item_no) ==
  agency \o <<"-">> \o case_no \o <<"-">> \o item_no

create_evidence_read(user, form) ==
  LET SameCase(row) == row.case_no = form.case_no
      evidence_id_str == EvidenceIdStr(form.agency, form.case_no, form.item_no)
      SameId(row) == row.evidence_id_str = evidence_id_str
  IN  IF ~can_create_evidence(user)
        THEN Fail(403, "Only COLLECTOR, ANALYST or ADMIN can create evidence")
      ELSE IF FirstId({i \in Ids(evidence) : SameCase(evidence[i])}) # 0
        THEN Fail(400, "Case number must be unique")
      ELSE IF form.files = <<>>
        THEN Fail(400, "At least one file must be uploaded")
      ELSE IF \E i \in 1..Len(form.files) : validate_file(form.files[i]) # ""
        THEN Fail(400, "File rejected")
      ELSE IF ~IsIsoString(form.collected_at)
        THEN Fail(400, "Invalid collected_at format. Use ISO-8601")
      ELSE IF FirstId({i \in Ids(evidence) : SameId(evidence[i])}) # 0
        THEN Fail(400, "Evidence ID already exists")
      ELSE Ok([op |-> "create_evidence", user |-> user,
               evidence_id_str |-> evidence_id_str, agency |-> form.agency,
               case_no |-> form.case_no, item_no |-> form.item_no,
               collected_at_utc |-> FromIsoFormat(form.collected_at),
               files |-> form.files])

\* The files loop of create_evidence (lines 143-168): encrypts file k.. of the
\* upload, returning the storage, the EvidenceFile rows and the audit details
RECURSIVE StoreFiles(_, _, _, _, _)
StoreFiles(files, k, nonces, owner_id, acc) ==
  IF k > Len(files) THEN acc
  ELSE
    LET file == files[k]
        enc == encrypt_file_data(acc.storage, nonces[k], file.content)
        row == [evidence_id |-> owner_id, orig_filename |-> file.filename,
                mime |-> file.content_type, size_bytes |-> Len(file.content),
                sha256_hex |-> enc.sha256_hex, cipher_path |-> enc.cipher_filename]
        detail == [filename |-> file.filename, size_bytes |-> Len(file.content),
                   sha256 |-> enc.sha256_hex, mime |-> file.content_type]
    IN  StoreFiles(files, k + 1, nonces, owner_id,
                   [storage |-> enc.storage, rows |-> Append(acc.rows, row),
                    details |-> Append(acc.details, detail)])

\* A faulty table evidence whose columns carry no unique constraint
EvidenceUniqueOk_unconstrained(uow) == TRUE

\* The unique constraints of table evidence, checked by the INSERT of db.flush()
EvidenceUniqueOk(uow) ==
  \A i \in Ids(evidence) :
     /\ evidence[i].evidence_id_str # uow.evidence_id_str
     /\ evidence[i].case_no # uow.case_no

\* A faulty create_evidence that adds no Custody row
CustodyNotCreated(id, user) == custody

\* custody = Custody(evidence_id=evidence.id, current_user_id=current_user.id);
\* db.add(custody)  (lines 170-175); since_utc is the server default now()
CustodyAfterCreate(id, user) ==
  Append(custody, [evidence_id |-> id, current_user_id |-> user,
                   since_utc |-> ColumnDateTime(NowUtc)])

\* A faulty create_evidence that encrypts and stores the files before its
\* INSERT is flushed, so a rejected creation leaves its blobs behind
create_evidence_write_blobs_first(uow, nonces) ==
  LET id == Len(evidence) + 1
      stored == StoreFiles(uow.files, 1, nonces, id,
                           [storage |-> storage, rows |-> <<>>, details |-> <<>>])
      audit_details == [action |-> "EVIDENCE_CREATED",
                        evidence_id_str |-> uow.evidence_id_str,
                        files |-> stored.details,
                        created_by |-> UserName(uow.user)]
      audit_entry == create_audit_entry(id, uow.user, "EVIDENCE_CREATED",
                                        audit_details, GenesisHash)
  IN  /\ storage' = stored.storage
      /\ IF ~EvidenceUniqueOk(uow)
           THEN UNCHANGED <<evidence, evidence_files, custody, audit_logs>>
           ELSE /\ evidence' = Append(evidence,
                     [evidence_id_str |-> uow.evidence_id_str, agency |-> uow.agency,
                      case_no |-> uow.case_no, item_no |-> uow.item_no,
                      collected_by_user_id |-> uow.user,
                      collected_at_utc |-> ColumnDateTime(uow.collected_at_utc)])
                /\ evidence_files' = evidence_files \o stored.rows
                /\ custody' = CustodyAfterCreate(id, uow.user)
                /\ audit_logs' = Append(audit_logs, AuditLog(audit_entry))
      /\ UNCHANGED <<transfers, analysis, analysis_files>>

\* db.add(evidence); db.flush() ... db.commit()  (lines 136-203)
create_evidence_write(uow, nonces) ==
  IF ~EvidenceUniqueOk(uow)
    THEN \* IntegrityError at flush: the transaction is rolled back
         UNCHANGED <<evidence, evidence_files, custody, transfers, audit_logs,
                     analysis, analysis_files, storage>>
  ELSE
    LET id == Len(evidence) + 1
        stored == StoreFiles(uow.files, 1, nonces, id,
                             [storage |-> storage, rows |-> <<>>, details |-> <<>>])
        audit_details == [action |-> "EVIDENCE_CREATED",
                          evidence_id_str |-> uow.evidence_id_str,
                          files |-> stored.details,
                          created_by |-> UserName(uow.user)]
        audit_entry == create_audit_entry(id, uow.user, "EVIDENCE_CREATED",
                                          audit_details, GenesisHash)
    IN  /\ evidence' = Append(evidence,
             [evidence_id_str |-> uow.evidence_id_str, agency |-> uow.agency,
              case_no |-> uow.case_no, item_no |-> uow.item_no,
              collected_by_user_id |-> uow.user,
              collected_at_utc |-> ColumnDateTime(uow.collected_at_utc)])
        /\ storage' = stored.storage
        /\ evidence_files' = evidence_files \o stored.rows
        /\ custody' = CustodyAfterCreate(id, uow.user)
        /\ audit_logs' = Append(audit_logs, AuditLog(audit_entry))
        /\ UNCHANGED <<transfers, analysis, analysis_files>>

(***************************************************************************)
(* api/transfer.py                                                         *)
(***************************************************************************)
\* A faulty custodian check that lets only the item's creator request
can_request_transfer_creator(user, custody_row) ==
  evidence[custody_row.evidence_id].collected_by_user_id = user
can_request_transfer(user, custody_row) == custody_row.current_user_id = user
\* A faulty recipient check that compares with the sender
can_accept_transfer_by_sender(user, transfer) == transfer.from_user_id = user
can_accept_transfer(user, transfer) == transfer.to_user_id = user

\* A faulty existing-transfer query that filters on the wrong status
PendingTransferId_accepted(evidence_id) ==
  LET IsAccepted(row) == row.evidence_id = evidence_id /\ row.status = "ACCEPTED"
  IN  FirstId({i \in Ids(transfers) : IsAccepted(transfers[i])})

\* .filter(Transfer.evidence_id == e, Transfer.status == PENDING).first()
PendingTransferId(evidence_id) ==
  LET IsPending(row) == row.evidence_id = evidence_id /\ row.status = "PENDING"
  IN  FirstId({i \in Ids(transfers) : IsPending(transfers[i])})

\* The audit details every transfer handler writes
TransferDetails(action, transfer_id, from_user, to_user, reason) ==
  [action |-> action, transfer_id |-> transfer_id,
   from_user |-> IF UserExists(from_user) THEN UserName(from_user) ELSE <<"Unknown">>,
   to_user |-> IF UserExists(to_user) THEN UserName(to_user) ELSE <<"Unknown">>,
   reason |-> reason]

\* request_transfer, lines 35-84: up to the Transfer object
request_transfer_read(user, data) ==
  IF data.evidence_id \notin Ids(evidence) THEN Fail(404, "Evidence not found")
  ELSE IF CustodyId(data.evidence_id) = 0
    THEN Fail(500, "No custody record found for evidence")
  ELSE IF ~can_request_transfer(user, custody[CustodyId(data.evidence_id)])
    THEN Fail(403, "Only current custodian can request transfer")
  ELSE IF ~UserExists(data.to_user_id) THEN Fail(404, "Recipient user not found")
  ELSE IF PendingTransferId(data.evidence_id) # 0
    THEN Fail(400, "Pending transfer already exists for this evidence")
  ELSE Ok([op |-> "request_transfer", user |-> user,
           evidence_id |-> data.evidence_id, to_user_id |-> data.to_user_id,
           reason |-> data.reason])

\* request_transfer, lines 86-124: db.add(transfer); db.flush() opens the write
\* transaction, the ledger tail is read inside it, then db.commit()
request_transfer_write(uow) ==
  LET id == Len(transfers) + 1
      audit_details == TransferDetails("TRANSFER_REQUESTED", id, uow.user,
                                       uow.to_user_id, uow.reason)
      prev_hash == TailHash(audit_logs, uow.evidence_id)
      audit_entry == create_audit_entry(uow.evidence_id, uow.user,
                                        "TRANSFER_REQUESTED", audit_details, prev_hash)
  IN  /\ transfers' = Append(transfers,
           [evidence_id |-> uow.evidence_id, from_user_id |-> uow.user,
            to_user_id |-> uow.to_user_id, reason |-> uow.reason,
            status |-> "PENDING", accepted_at_utc |-> NoneDt])
      /\ audit_logs' = Append(audit_logs, AuditLog(audit_entry))
      /\ UNCHANGED <<evidence, evidence_files, custody, analysis, analysis_files, storage>>

\* accept_transfer, lines 143-219: everything up to db.commit().  The session
\* has autoflush off, so the status, the custody row and the ledger tail are
\* all read before the first write.
accept_transfer_read(user, transfer_id) ==
  IF transfer_id \notin Ids(transfers) THEN Fail(404, "Transfer not found")
  ELSE
    LET transfer == transfers[transfer_id]
        audit_details == TransferDetails("TRANSFER_ACCEPTED", transfer_id,
                                         transfer.from_user_id, user, transfer.reason)
        prev_hash == TailHash(audit_logs, transfer.evidence_id)
        audit_entry == create_audit_entry(transfer.evidence_id, user,
                                          "TRANSFER_ACCEPTED", audit_details, prev_hash)
    IN  IF ~can_accept_transfer(user, transfer)
          THEN Fail(403, "Only the recipient can accept this transfer")
        ELSE IF transfer.status # "PENDING" THEN Fail(400, "Transfer is not pending")
        ELSE Ok([op |-> "accept_transfer", user |-> user,
                 transfer_id |-> transfer_id, evidence_id |-> transfer.evidence_id,
                 status |-> "ACCEPTED", accepted_at_utc |-> UtcNow,
                 custody_id |-> CustodyId(transfer.evidence_id),
                 since_utc |-> UtcNow,
                 audit_log |-> AuditLog(audit_entry)])

\* The unique constraint of custody.evidence_id, checked when a row is inserted
CustodyUniqueOk(evidence_id) ==
  \A i \in Ids(custody) : custody[i].evidence_id # evidence_id

\* A faulty accept that resolves the transfer and leaves custody where it was
accept_transfer_write_keeping_holder(uow) ==
  /\ transfers' = [transfers EXCEPT ![uow.transfer_id] =
                     [@ EXCEPT !.status = uow.status,
                               !.accepted_at_utc = ColumnDateTime(uow.accepted_at_utc)]]
  /\ audit_logs' = Append(audit_logs, uow.audit_log)
  /\ UNCHANGED <<evidence, evidence_files, custody, analysis, analysis_files, storage>>

\* A faulty accept that hands the custody row back to the sender
accept_transfer_write_to_sender(uow) ==
  /\ transfers' = [transfers EXCEPT ![uow.transfer_id] =
                     [@ EXCEPT !.status = uow.status,
                               !.accepted_at_utc = ColumnDateTime(uow.accepted_at_utc)]]
  /\ custody' = [custody EXCEPT ![CustodyId(uow.evidence_id)] =
                   [@ EXCEPT !.current_user_id = transfers[uow.transfer_id].from_user_id]]
  /\ audit_logs' = Append(audit_logs, uow.audit_log)
  /\ UNCHANGED <<evidence, evidence_files, analysis, analysis_files, storage>>

\* accept_transfer, line 221: db.commit() flushes the UPDATE of the transfer,
\* the UPDATE (or INSERT) of the custody row and the INSERT of the audit row
accept_transfer_write(uow) ==
  IF uow.custody_id = 0 /\ ~CustodyUniqueOk(uow.evidence_id)
    THEN \* IntegrityError: the transaction is rolled back
         UNCHANGED <<evidence, evidence_files, custody, transfers, audit_logs,
                     analysis, analysis_files, storage>>
  ELSE
    /\ transfers' = [transfers EXCEPT ![uow.transfer_id] =
                       [@ EXCEPT !.status = uow.status,
                                 !.accepted_at_utc = ColumnDateTime(uow.accepted_at_utc)]]
    /\ custody' =
         IF uow.custody_id # 0
           THEN [custody EXCEPT ![uow.custody_id] =
                   [@ EXCEPT !.current_user_id = uow.user,
                             !.since_utc = ColumnDateTime(uow.since_utc)]]
           ELSE Append(custody, [evidence_id |-> uow.evidence_id,
                                 current_user_id |-> uow.user,
                                 since_utc |-> ColumnDateTime(NowUtc)])
    /\ audit_logs' = Append(audit_logs, uow.audit_log)
    /\ UNCHANGED <<evidence, evidence_files, analysis, analysis_files, storage>>

\* cancel_transfer, lines 292-334
cancel_transfer_read(user, transfer_id) ==
  IF transfer_id \notin Ids(transfers) THEN Fail(404, "Transfer not found")
  ELSE
    LET transfer == transfers[transfer_id]
        details == TransferDetails("TRANSFER_CANCELLED", transfer_id, user,
                                   transfer.to_user_id, transfer.reason)
        prev_hash == TailHash(audit_logs, transfer.evidence_id)
        entry == create_audit_entry(transfer.evidence_id, user,
                                    "TRANSFER_CANCELLED", details, prev_hash)
    IN  IF transfer.from_user_id # user
          THEN Fail(403, "Only the initiator can cancel this transfer")
        ELSE IF transfer.status # "PENDING" THEN Fail(400, "Transfer is not pending")
        ELSE Ok([op |-> "cancel_transfer", user |-> user,
                 transfer_id |-> transfer_id, evidence_id |-> transfer.evidence_id,
                 status |-> "CANCELLED", audit_log |-> AuditLog(entry)])

\* reject_transfer, lines 352-409
reject_transfer_read(user, transfer_id) ==
  IF transfer_id \notin Ids(transfers) THEN Fail(404, "Transfer not found")
  ELSE
    LET transfer == transfers[transfer_id]
        audit_details == TransferDetails("TRANSFER_REJECTED", transfer_id,
                                         transfer.from_user_id, user, transfer.reason)
        prev_hash == TailHash(audit_logs, transfer.evidence_id)
        audit_entry == create_audit_entry(transfer.evidence_id, user,
                                          "TRANSFER_REJECTED", audit_details, prev_hash)
    IN  IF ~can_accept_transfer(user, transfer)
          THEN Fail(403, "Only the recipient can reject this transfer")
        ELSE IF transfer.status # "PENDING" THEN Fail(400, "Transfer is not pending")
        ELSE Ok([op |-> "reject_transfer", user |-> user,
                 transfer_id |-> transfer_id, evidence_id |-> transfer.evidence_id,
                 status |-> "CANCELLED", audit_log |-> AuditLog(audit_entry)])

\* A faulty cancel/reject that also hands the custody row to its caller
resolve_transfer_write_taking_custody(uow) ==
  /\ transfers' = [transfers EXCEPT ![uow.transfer_id] =
                     [@ EXCEPT !.status = uow.status]]
  /\ custody' = [custody EXCEPT ![CustodyId(uow.evidence_id)] =
                   [@ EXCEPT !.current_user_id = uow.user]]
  /\ audit_logs' = Append(audit_logs, uow.audit_log)
  /\ UNCHANGED <<evidence, evidence_files, analysis, analysis_files, storage>>

\* cancel_transfer line 336 and reject_transfer line 411: db.commit() flushes
\* the UPDATE of the transfer's status and the INSERT of the audit row
resolve_transfer_write(uow) ==
  /\ transfers' = [transfers EXCEPT ![uow.transfer_id] =
                     [@ EXCEPT !.status = uow.status]]
  /\ audit_logs' = Append(audit_logs, uow.audit_log)
  /\ UNCHANGED <<evidence, evidence_files, custody, analysis, analysis_files, storage>>

(***************************************************************************)
(* api/evidence.py: download_file                                          *)
(***************************************************************************)
\* custody and custody.current_user_id == user.id
\* A faulty permission that gives ADMIN the read access of AUDITOR
can_view_evidence_admin(user, evidence_id, custody_id) ==
  \/ UserRole(user) \in {"AUDITOR", "ADMIN"}
  \/ custody_id # 0 /\ custody[custody_id].current_user_id = user
  \/ evidence[evidence_id].collected_by_user_id = user

\* can_view_evidence(user, evidence, custody), lines 27-38
can_view_evidence(user, evidence_id, custody_id) ==
  \/ UserRole(user) = "AUDITOR"
  \/ custody_id # 0 /\ custody[custody_id].current_user_id = user
  \/ evidence[evidence_id].collected_by_user_id = user

\* get_evidence, lines 270-295: the status and the item returned
get_evidence(user, evidence_id) ==
  IF evidence_id \notin Ids(evidence)
    THEN [code |-> 404, detail |-> "Evidence not found", id |-> 0]
  ELSE IF ~can_view_evidence(user, evidence_id, CustodyId(evidence_id))
    THEN [code |-> 403, detail |-> "Insufficient permissions to view this evidence",
          id |-> 0]
  ELSE [code |-> 200, detail |-> "", id |-> evidence_id]

\* list_evidence, lines 222-238: the filtered query, its count, and the page
\* cut out by offset((page - 1) * per_page).limit(per_page), rows in id order
list_evidence(user, page, per_page) ==
  LET custody_evidence_ids ==
        { custody[c].evidence_id : c \in {c \in Ids(custody) :
                                            custody[c].current_user_id = user} }
      query ==
        IF UserRole(user) # "AUDITOR"
          THEN { e \in Ids(evidence) : \/ evidence[e].collected_by_user_id = user
                                       \/ e \in custody_evidence_ids }
          ELSE Ids(evidence)
      rows == SelectIds(query)
      offset == (page - 1) * per_page
      last == IF offset + per_page < Len(rows) THEN offset + per_page ELSE Len(rows)
  IN  [items |-> SubSeq(rows, offset + 1, last), total |-> Cardinality(query),
       page |-> page, per_page |-> per_page]

\* A faulty permission that lets the item's creator download for ever
can_download_files_creator(user, custody_id) ==
  /\ custody_id # 0
  /\ evidence[custody[custody_id].evidence_id].collected_by_user_id = user

can_download_files(user, custody_id) ==
  custody_id # 0 /\ custody[custody_id].current_user_id = user

\* download_file, lines 306-375: everything up to db.commit(), over the blob
\* storage store
download_file_from(store, user, evidence_id, file_id) ==
  IF evidence_id \notin Ids(evidence) THEN Fail(404, "Evidence not found")
  ELSE IF ~(file_id \in Ids(evidence_files)
            /\ evidence_files[file_id].evidence_id = evidence_id)
    THEN Fail(404, "File not found")
  ELSE IF ~can_download_files(user, CustodyId(evidence_id))
    THEN Fail(403, "Only current custodian can download files")
  ELSE
    LET evidence_file == evidence_files[file_id]
        decrypted == decrypt_file_data(store, evidence_file.cipher_path)
        audit_details == [action |-> "FILE_DOWNLOADED", file_id |-> file_id,
                          filename |-> evidence_file.orig_filename,
                          accessed_by |-> UserName(user)]
        prev_hash == TailHash(audit_logs, evidence_id)
        audit_entry == create_audit_entry(evidence_id, user, "FILE_DOWNLOADED",
                                          audit_details, prev_hash)
    IN  IF ~decrypted.ok /\ decrypted.error = "FileNotFoundError"
          THEN Fail(500, "Encrypted file not found on disk")
        ELSE IF ~decrypted.ok THEN Fail(500, "Failed to decrypt file")
        ELSE IF compute_sha256(decrypted.plaintext) # evidence_file.sha256_hex
          THEN \* the 500 "File integrity check failed" raised inside the try is
               \* caught by "except Exception" and raised again
               Fail(500, "Failed to decrypt file")
        ELSE Ok([op |-> "download_file", user |-> user, evidence_id |-> evidence_id,
                 file_id |-> file_id, data |-> decrypted.plaintext,
                 audit_log |-> AuditLog(audit_entry)])

\* download_file over the storage directory as it is
download_file_read(user, evidence_id, file_id) ==
  download_file_from(storage, user, evidence_id, file_id)

\* A faulty download whose entry overwrites the last row of the ledger
download_file_write_replacing_tail(uow) ==
  /\ audit_logs' = [audit_logs EXCEPT ![Len(audit_logs)] = uow.audit_log]
  /\ UNCHANGED <<evidence, evidence_files, custody, transfers, analysis,
                 analysis_files, storage>>

\* A faulty download that is not recorded in the ledger
download_file_write_unaudited(uow) ==
  UNCHANGED <<evidence, evidence_files, custody, transfers, audit_logs, analysis,
              analysis_files, storage>>

\* download_file, lines 375-376: db.add(audit_log); db.commit()
download_file_write(uow) ==
  /\ audit_logs' = Append(audit_logs, uow.audit_log)
  /\ UNCHANGED <<evidence, evidence_files, custody, transfers, analysis,
                 analysis_files, storage>>

(***************************************************************************)
(* api/analysis.py: create_analysis                                        *)
(***************************************************************************)
is_current_custodian(evidence_id, user_id) ==
  CustodyId(evidence_id) # 0 /\ custody[CustodyId(evidence_id)].current_user_id = user_id

\* create_analysis, lines 75-100: up to the Analysis object
create_analysis_read(user, form) ==
  IF form.evidence_id \notin Ids(evidence) THEN Fail(404, "Evidence not found")
  ELSE IF ~is_current_custodian(form.evidence_id, user)
    THEN Fail(403, "Only current custodian can add analysis")
  ELSE IF ~IsIsoString(form.analysis_at_iso) THEN Fail(400, "Invalid analysis_at_iso")
  ELSE Ok([op |-> "create_analysis", user |-> user, evidence_id |-> form.evidence_id,
           analysis_at_utc |->
             TruncateMicro(ForceUtc(FromIsoFormat(form.analysis_at_iso))),
           analysis_by |-> form.analysis_by, role |-> form.role,
           place_of_analysis |-> form.place_of_analysis, files |-> form.files])

\* The files loop of create_analysis (lines 105-117)
RECURSIVE StoreAnalysisFiles(_, _, _, _, _)
StoreAnalysisFiles(files, k, nonces, analysis_id, acc) ==
  IF k > Len(files) THEN acc
  ELSE
    LET uf == files[k]
        enc == encrypt_file_data(acc.storage, nonces[k], uf.content)
        af == [analysis_id |-> analysis_id, orig_filename |-> uf.filename,
               mime |-> IF uf.content_type = "" THEN "application/octet-stream"
                        ELSE uf.content_type,
               size_bytes |-> Len(uf.content), sha256_hex |-> enc.sha256_hex,
               cipher_path |-> enc.cipher_filename]
    IN  StoreAnalysisFiles(files, k + 1, nonces, analysis_id,
                           [storage |-> enc.storage, rows |-> Append(acc.rows, af)])

\* create_analysis, lines 101-147: db.add(analysis); db.flush() opens the write
\* transaction; the files are stored and the ledger tail is read inside it
create_analysis_write(uow, nonces) ==
  LET id == Len(analysis) + 1
      stored == StoreAnalysisFiles(uow.files, 1, nonces, id,
                                   [storage |-> storage, rows |-> <<>>])
      prev_hash == TailHash(audit_logs, uow.evidence_id)
      details == [action |-> "ANALYSIS_CREATED", analysis_id |-> id,
                  analysis_by |-> uow.analysis_by, role |-> uow.role,
                  place_of_analysis |-> uow.place_of_analysis]
      entry == create_audit_entry(uow.evidence_id, uow.user, "ANALYSIS_CREATED",
                                  details, prev_hash)
  IN  /\ analysis' = Append(analysis,
           [evidence_id |-> uow.evidence_id,
            analysis_at_utc |-> ColumnDateTime(uow.analysis_at_utc),
            analysis_by |-> uow.analysis_by, role |-> uow.role,
            place_of_analysis |-> uow.place_of_analysis,
            created_by_user_id |-> uow.user])
      /\ storage' = stored.storage
      /\ analysis_files' = analysis_files \o stored.rows
      /\ audit_logs' = Append(audit_logs, AuditLog(entry))
      /\ UNCHANGED <<evidence, evidence_files, custody, transfers>>

\* download_analysis_file (lines 189-211), over the blob storage store: the
\* answer, with the bytes streamed when it is 200
download_analysis_file(store, user, analysis_id, file_id) ==
  IF analysis_id \notin Ids(analysis)
    THEN [code |-> 404, detail |-> "Analysis not found", data |-> <<>>]
  ELSE IF ~is_current_custodian(analysis[analysis_id].evidence_id, user)
    THEN [code |-> 403, detail |-> "Only current custodian can download analysis files",
          data |-> <<>>]
  ELSE IF ~(file_id \in Ids(analysis_files)
            /\ analysis_files[file_id].analysis_id = analysis_id)
    THEN [code |-> 404, detail |-> "File not found", data |-> <<>>]
  ELSE
    LET f == analysis_files[file_id]
        decrypted == decrypt_file_data(store, f.cipher_path)
    IN  IF ~decrypted.ok /\ decrypted.error = "FileNotFoundError"
          THEN [code |-> 500, detail |-> "Encrypted file not found on disk",
                data |-> <<>>]
        ELSE IF ~decrypted.ok
          THEN [code |-> 500, detail |-> "Failed to decrypt file", data |-> <<>>]
        ELSE [code |-> 200, detail |-> "", data |-> decrypted.plaintext]

(***************************************************************************)
(* api/audit.py: verify_audit_chain, over a given audit_logs table         *)
(***************************************************************************)
\* .filter(AuditLog.evidence_id == e).order_by(AuditLog.id.asc()).all(): row ids
LedgerIds(logs, evidence_id) ==
  LET IsOf(row) == row.evidence_id = evidence_id
  IN  SelectIds({i \in Ids(logs) : IsOf(logs[i])})

\* A faulty rebuild that formats the stored timestamp as it is read back
StoredEntryData_naive(log) ==
  [evidence_id |-> log.evidence_id, actor_user_id |-> log.actor_user_id,
   action |-> log.action, details |-> JsonLoads(log.details_json),
   ts_utc |-> IsoFormat(TruncateMicro(log.ts_utc))]

\* lines 118-131: the payload rebuilt from a stored row
StoredEntryData(log) ==
  [evidence_id |-> log.evidence_id, actor_user_id |-> log.actor_user_id,
   action |-> log.action, details |-> JsonLoads(log.details_json),
   ts_utc |-> IsoFormat(TruncateMicro(ForceUtc(log.ts_utc)))]

\* A faulty walk that does not compare an entry's prev_hash with the entry
\* before it
RECURSIVE VerifyLoop_unlinked(_, _, _, _)
VerifyLoop_unlinked(logs, ids, i, expected_prev_hash) ==
  IF i > Len(ids) THEN <<>>
  ELSE
    LET log == logs[ids[i]]
        expected_entry_hash == compute_entry_hash(log.prev_hash_hex, StoredEntryData(log))
        entry_hash_valid == log.entry_hash_hex = expected_entry_hash
    IN  << [entry_id |-> ids[i], sequence |-> i, action |-> log.action,
            prev_hash_valid |-> TRUE,
            entry_hash_valid |-> entry_hash_valid,
            entry_valid |-> entry_hash_valid,
            expected_entry_hash |-> expected_entry_hash] >>
        \o VerifyLoop_unlinked(logs, ids, i + 1, log.entry_hash_hex)

\* A faulty walk that stops at the first entry it finds invalid
RECURSIVE VerifyLoop_aborting(_, _, _, _)
VerifyLoop_aborting(logs, ids, i, expected_prev_hash) ==
  IF i > Len(ids) THEN <<>>
  ELSE
    LET log == logs[ids[i]]
        prev_hash_valid == log.prev_hash_hex = expected_prev_hash
        expected_entry_hash == compute_entry_hash(log.prev_hash_hex, StoredEntryData(log))
        entry_hash_valid == log.entry_hash_hex = expected_entry_hash
    IN  << [entry_id |-> ids[i], sequence |-> i, action |-> log.action,
            prev_hash_valid |-> prev_hash_valid,
            entry_hash_valid |-> entry_hash_valid,
            entry_valid |-> prev_hash_valid /\ entry_hash_valid,
            expected_entry_hash |-> expected_entry_hash] >>
        \o (IF prev_hash_valid /\ entry_hash_valid
              THEN VerifyLoop_aborting(logs, ids, i + 1, log.entry_hash_hex)
              ELSE <<>>)

\* lines 116-162: the loop, from position i of ids with the expected prev hash
RECURSIVE VerifyLoop(_, _, _, _)
VerifyLoop(logs, ids, i, expected_prev_hash) ==
  IF i > Len(ids) THEN <<>>
  ELSE
    LET log == logs[ids[i]]
        prev_hash_valid == log.prev_hash_hex = expected_prev_hash
        expected_entry_hash == compute_entry_hash(log.prev_hash_hex, StoredEntryData(log))
        entry_hash_valid == log.entry_hash_hex = expected_entry_hash
    IN  << [entry_id |-> ids[i], sequence |-> i, action |-> log.action,
            prev_hash_valid |-> prev_hash_valid,
            entry_hash_valid |-> entry_hash_valid,
            entry_valid |-> prev_hash_valid /\ entry_hash_valid,
            expected_entry_hash |-> expected_entry_hash] >>
        \o VerifyLoop(logs, ids, i + 1, log.entry_hash_hex)

\* verify_audit_chain(evidence_id) for an existing evidence item
verify_audit_chain(logs, evidence_id) ==
  LET ids == LedgerIds(logs, evidence_id)
      verification_details == VerifyLoop(logs, ids, 1, GenesisHash)
  IN  [chain_valid |-> \A i \in 1..Len(verification_details) :
                          verification_details[i].entry_valid,
       total_entries |-> Len(ids),
       verification_details |-> verification_details]

\* get_audit_log, lines 55-69: one entry of the response
AuditEntryView(logs, id) ==
  LET log == logs[id]
  IN  [id |-> id, evidence_id |-> log.evidence_id,
       actor_user_id |-> log.actor_user_id,
       actor_name |-> IF UserExists(log.actor_user_id)
                        THEN UserName(log.actor_user_id) ELSE <<"Unknown">>,
       action |-> log.action, details |-> JsonLoads(log.details_json),
       ts_utc |-> IsoFormat(TruncateMicro(ForceUtc(log.ts_utc))),
       prev_hash_hex |-> log.prev_hash_hex, entry_hash_hex |-> log.entry_hash_hex]

\* get_audit_log, lines 27-78: the response a caller receives.  No role is
\* looked at; the handler only queries.
get_audit_log(user, evidence_id) ==
  IF evidence_id \notin Ids(evidence)
    THEN [op |-> "get_audit_log", user |-> user, evidence_id |-> evidence_id,
          code |-> 404, detail |-> "Evidence not found"]
  ELSE
    LET ids == LedgerIds(audit_logs, evidence_id)
    IN  [op |-> "get_audit_log", user |-> user, evidence_id |-> evidence_id,
         code |-> 200, detail |-> "",
         evidence_id_str |-> evidence[evidence_id].evidence_id_str,
         audit_entries |-> [i \in 1..Len(ids) |-> AuditEntryView(audit_logs, ids[i])],
         total_entries |-> Len(ids)]

\* verify_audit_chain, lines 81-167: the response a caller receives.  No role
\* is looked at; the handler only queries.
verify_audit_chain_read(user, evidence_id) ==
  IF evidence_id \notin Ids(evidence)
    THEN [op |-> "verify_audit_chain", user |-> user, evidence_id |-> evidence_id,
          code |-> 404, detail |-> "Evidence not found"]
  ELSE [op |-> "verify_audit_chain", user |-> user, evidence_id |-> evidence_id,
        code |-> 200, detail |-> "",
        evidence_id_str |-> evidence[evidence_id].evidence_id_str,
        result |-> verify_audit_chain(audit_logs, evidence_id)]

(***************************************************************************)
(* Inputs of the requests.                                                 *)
(***************************************************************************)
ValidIso == <<"T", 0, "+00:00">>
UploadOk == [filename |-> "a.txt", content_type |-> "text/plain", size |-> 2,
             content |-> <<1, 2>>]
UploadBadMime == [filename |-> "a.exe", content_type |-> "application/x-msdownload",
                  size |-> 2, content |-> <<1, 2>>]
UploadTooLarge == [filename |-> "big.pdf", content_type |-> "application/pdf",
                   size |-> max_file_size + 1, content |-> <<1, 2>>]
EvidenceForm(case_no, collected_at, files) ==
  [agency |-> <<"A">>, case_no |-> case_no, item_no |-> <<"x">>,
   collected_at |-> collected_at, files |-> files]
\* the uploads of a run: well-formed ones for the case numbers, and malformed ones
EvidenceForms(case_nos) ==
  { EvidenceForm(c, ValidIso, <<UploadOk>>) : c \in case_nos }
  \cup { EvidenceForm(<<"1">>, <<"yesterday">>, <<UploadOk>>),
         EvidenceForm(<<"1">>, ValidIso, <<>>),
         EvidenceForm(<<"1">>, ValidIso, <<UploadBadMime>>),
         EvidenceForm(<<"1">>, ValidIso, <<UploadTooLarge>>) }
RacedCaseNos == { <<"1">> }          \* Spec: the creations race on one case number
SeqCaseNos == { <<"1">>, <<"2">> }   \* SpecSeq: two evidence items
Reasons == {"handover"}
\* ids of the rows of a table and one id that has no row
IdsAndMissing(table) == 1..(Len(table) + 1)
TransferRequests ==
  [evidence_id : IdsAndMissing(evidence), to_user_id : Users \cup {NoUser},
   reason : Reasons]
AnalysisForms(uploads) ==
  [evidence_id : IdsAndMissing(evidence), analysis_at_iso : {ValidIso, <<"soon">>},
   analysis_by : {"lab"}, role : {"examiner"}, place_of_analysis : {"HQ"},
   files : uploads]
RacedUploads == { <<>> }             \* Spec: analyses without attachments
SeqUploads == { <<>>, <<UploadOk>> } \* SpecSeq: with and without an attachment
NonceSeqs(files) == [1..Len(files) -> Nonces]

(***************************************************************************)
(* The state machine.                                                      *)
(***************************************************************************)
Init ==
  /\ evidence = <<>> /\ evidence_files = <<>> /\ custody = <<>>
  /\ transfers = <<>> /\ audit_logs = <<>> /\ analysis = <<>>
  /\ analysis_files = <<>>
  /\ storage = <<>>
  /\ clock = 0
  /\ sess = [w \in Workers |-> Idle]
  /\ op_count = <<>>

\* The write transaction of the unit of work a session holds
Write(uow) ==
  CASE uow.op = "create_evidence" ->
         \E nonces \in NonceSeqs(uow.files) : create_evidence_write(uow, nonces)
    [] uow.op = "request_transfer" -> request_transfer_write(uow)
    [] uow.op = "accept_transfer" -> accept_transfer_write(uow)
    [] uow.op \in {"cancel_transfer", "reject_transfer"} -> resolve_transfer_write(uow)
    [] uow.op = "download_file" -> download_file_write(uow)
    [] uow.op = "create_analysis" ->
         \E nonces \in NonceSeqs(uow.files) : create_analysis_write(uow, nonces)

\* Whether the write transaction of uow commits (no constraint is violated)
Commits(uow) ==
  CASE uow.op = "create_evidence" -> EvidenceUniqueOk(uow)
    [] uow.op = "accept_transfer" ->
         uow.custody_id # 0 \/ CustodyUniqueOk(uow.evidence_id)
    [] OTHER -> TRUE

\* The history of successful mutating requests, per evidence id
Count(uow) ==
  op_count' =
    IF ~Commits(uow) THEN op_count
    ELSE IF uow.op = "create_evidence" THEN Append(op_count, 1)
    ELSE [op_count EXCEPT ![uow.evidence_id] = @ + 1]

InFlight == Cardinality({w \in Workers : sess[w].op # "idle"})

\* A worker's session runs a handler up to its first write: r is what the
\* handler's read part returns (a request that fails in its read part leaves
\* no session behind, writes nothing, and is no step)
Begin(w, r) ==
  /\ sess[w].op = "idle"
  /\ \A v \in Workers : v < w => sess[v].op # "idle"
  /\ Len(audit_logs) + InFlight < MaxAudit
  /\ r.code = 200
  /\ sess' = [sess EXCEPT ![w] = r.uow]
  /\ UNCHANGED <<tables, clock, op_count>>

Commit(w, op) ==
  /\ sess[w].op = op
  /\ Write(sess[w])
  /\ Count(sess[w])
  /\ sess' = [sess EXCEPT ![w] = Idle]
  /\ UNCHANGED clock

BeginCreateEvidence(w) ==
  \E u \in Users, form \in EvidenceForms(RacedCaseNos) :
     Begin(w, create_evidence_read(u, form))
BeginRequestTransfer(w) ==
  \E u \in Users, data \in TransferRequests : Begin(w, request_transfer_read(u, data))
BeginAcceptTransfer(w) ==
  \E u \in Users, t \in IdsAndMissing(transfers) : Begin(w, accept_transfer_read(u, t))
BeginCancelTransfer(w) ==
  \E u \in Users, t \in IdsAndMissing(transfers) : Begin(w, cancel_transfer_read(u, t))
BeginRejectTransfer(w) ==
  \E u \in Users, t \in IdsAndMissing(transfers) : Begin(w, reject_transfer_read(u, t))
BeginDownloadFile(w) ==
  \E u \in Users, e \in IdsAndMissing(evidence), f \in IdsAndMissing(evidence_files) :
     Begin(w, download_file_read(u, e, f))
BeginCreateAnalysis(w) ==
  \E u \in Users, form \in AnalysisForms(RacedUploads) :
     Begin(w, create_analysis_read(u, form))

CommitCreateEvidence(w) == Commit(w, "create_evidence")
CommitRequestTransfer(w) == Commit(w, "request_transfer")
CommitAcceptTransfer(w) == Commit(w, "accept_transfer")
CommitCancelTransfer(w) == Commit(w, "cancel_transfer")
CommitRejectTransfer(w) == Commit(w, "reject_transfer")
CommitDownloadFile(w) == Commit(w, "download_file")
CommitCreateAnalysis(w) == Commit(w, "create_analysis")

Tick ==
  /\ clock < MaxClock
  /\ clock' = clock + 1
  /\ UNCHANGED <<tables, sess, op_count>>

Next ==
  \/ \E w \in Workers : BeginCreateEvidence(w)
  \/ \E w \in Workers : BeginRequestTransfer(w)
  \/ \E w \in Workers : BeginAcceptTransfer(w)
  \/ \E w \in Workers : BeginCancelTransfer(w)
  \/ \E w \in Workers : BeginRejectTransfer(w)
  \/ \E w \in Workers : BeginDownloadFile(w)
  \/ \E w \in Workers : BeginCreateAnalysis(w)
  \/ \E w \in Workers : CommitCreateEvidence(w)
  \/ \E w \in Workers : CommitRequestTransfer(w)
  \/ \E w \in Workers : CommitAcceptTransfer(w)
  \/ \E w \in Workers : CommitCancelTransfer(w)
  \/ \E w \in Workers : CommitRejectTransfer(w)
  \/ \E w \in Workers : CommitDownloadFile(w)
  \/ \E w \in Workers : CommitCreateAnalysis(w)
  \/ Tick

\* Concurrent workers
Spec == Init /\ [][Next]_vars

\* One request at a time: the handler runs from its first query to its commit
\* (a request that fails in its read part writes nothing and is no step)
Handle(r) ==
  /\ Len(audit_logs) < SeqMaxAudit
  /\ r.code = 200
  /\ Write(r.uow)
  /\ Count(r.uow)
  /\ UNCHANGED <<clock, sess>>

CreateEvidence ==
  \E u \in Users, form \in EvidenceForms(SeqCaseNos) : Handle(create_evidence_read(u, form))
RequestTransfer ==
  \E u \in Users, data \in TransferRequests : Handle(request_transfer_read(u, data))
AcceptTransfer ==
  \E u \in Users, t \in IdsAndMissing(transfers) : Handle(accept_transfer_read(u, t))
CancelTransfer ==
  \E u \in Users, t \in IdsAndMissing(transfers) : Handle(cancel_transfer_read(u, t))
RejectTransfer ==
  \E u \in Users, t \in IdsAndMissing(transfers) : Handle(reject_transfer_read(u, t))
DownloadFile ==
  \E u \in Users, e \in IdsAndMissing(evidence), f \in IdsAndMissing(evidence_files) :
     Handle(download_file_read(u, e, f))
CreateAnalysis ==
  \E u \in Users, form \in AnalysisForms(SeqUploads) :
     Handle(create_analysis_read(u, form))

NextSeq ==
  \/ CreateEvidence
  \/ RequestTransfer
  \/ AcceptTransfer
  \/ CancelTransfer
  \/ RejectTransfer
  \/ DownloadFile
  \/ CreateAnalysis
  \/ Tick

SpecSeq == Init /\ [][NextSeq]_vars

(***************************************************************************)
(* The cipher store on its own: encrypt_file_data applied to payloads and  *)
(* nonces drawn from small sets, the blobs accumulating in the storage      *)
(* directory.                                                              *)
(***************************************************************************)
MaxBlobs == 2        \* blobs a run of SpecStore writes
\* byte payloads: empty, the extreme byte values, and more than one byte
Payloads == { <<>>, <<0>>, <<255>>, <<1, 2>> }
\* os.urandom(12): the nonces a run of SpecStore may draw
StoreNonces ==
  { [i \in 1..NonceLen |-> IF i = 1 THEN b ELSE 0] : b \in {0, 1, 255} }
StoreBlob ==
  /\ Cardinality(DOMAIN storage) < MaxBlobs
  /\ \E plaintext \in Payloads, nonce \in StoreNonces :
        storage' = encrypt_file_data(storage, nonce, plaintext).storage
  /\ UNCHANGED <<evidence, evidence_files, custody, transfers, audit_logs, analysis,
                 analysis_files, clock, sess, op_count>>
NextStore == StoreBlob
SpecStore == Init /\ [][NextStore]_vars

(***************************************************************************)
(* Custody passing from hand to hand: one request at a time, all four      *)
(* roles taking part, long enough for custody to move twice.               *)
(***************************************************************************)
MaxHandOverAudit == 5        \* audit_logs rows a run of SpecHandOver writes
AllUsers == Users \cup {AdminUser}
HandOver(r) ==
  /\ Len(audit_logs) < MaxHandOverAudit
  /\ r.code = 200
  /\ Write(r.uow)
  /\ Count(r.uow)
  /\ UNCHANGED <<clock, sess>>
HandOverCreate ==
  \E u \in AllUsers, form \in EvidenceForms(SeqCaseNos) :
     HandOver(create_evidence_read(u, form))
HandOverRequest ==
  \E u \in AllUsers, e \in Ids(evidence), to \in AllUsers :
     HandOver(request_transfer_read(u, [evidence_id |-> e, to_user_id |-> to,
                                       reason |-> "handover"]))
HandOverAccept ==
  \E u \in AllUsers, t \in Ids(transfers) : HandOver(accept_transfer_read(u, t))
HandOverDownload ==
  \E u \in AllUsers, e \in Ids(evidence), f \in Ids(evidence_files) :
     HandOver(download_file_read(u, e, f))
NextHandOver == HandOverCreate \/ HandOverRequest \/ HandOverAccept \/ HandOverDownload
SpecHandOver == Init /\ [][NextHandOver]_vars

(***************************************************************************)
(* The ledger read back: requests served one at a time, and a reader       *)
(* (session 1) calling get_audit_log and verify_audit_chain in between.    *)
(* The reader's session holds the last response it received for as long as *)
(* no request has been served since.                                       *)
(***************************************************************************)
MaxReadAudit == 2        \* audit_logs rows a run of SpecAudit writes
Reader == 1
Served(r) ==
  /\ Len(audit_logs) < MaxReadAudit
  /\ r.code = 200
  /\ Write(r.uow)
  /\ Count(r.uow)
  /\ sess' = [sess EXCEPT ![Reader] = Idle]
  /\ UNCHANGED clock
ServedCreate ==
  \E u \in Users, form \in EvidenceForms(SeqCaseNos) : Served(create_evidence_read(u, form))
ServedRequest ==
  \E u \in Users, data \in TransferRequests : Served(request_transfer_read(u, data))
ServedDownload ==
  \E u \in Users, e \in IdsAndMissing(evidence), f \in IdsAndMissing(evidence_files) :
     Served(download_file_read(u, e, f))
\* A read-only handler: the response reaches the reader, no row is written
Answered(response) ==
  /\ sess' = [sess EXCEPT ![Reader] = response]
  /\ UNCHANGED <<tables, clock, op_count>>
\* A faulty read that records itself in the ledger
VerifyAuditChain_audited(u, e) ==
  /\ Len(audit_logs) < MaxReadAudit
  /\ sess' = [sess EXCEPT ![Reader] = verify_audit_chain_read(u, e)]
  /\ audit_logs' =
       Append(audit_logs,
              AuditLog(create_audit_entry(e, u, "CHAIN_VERIFIED", [action |-> "verify"],
                                          TailHash(audit_logs, e))))
  /\ UNCHANGED <<evidence, evidence_files, custody, transfers, analysis,
                 analysis_files, storage, clock, op_count>>
GetAuditLog(u, e) == Answered(get_audit_log(u, e))
VerifyAuditChain(u, e) == Answered(verify_audit_chain_read(u, e))
ReadAuditLog == \E u \in AllUsers, e \in IdsAndMissing(evidence) : GetAuditLog(u, e)
ReadVerification ==
  \E u \in AllUsers, e \in IdsAndMissing(evidence) : VerifyAuditChain(u, e)
NextAudit ==
  \/ ServedCreate
  \/ ServedRequest
  \/ ServedDownload
  \/ ReadAuditLog
  \/ ReadVerification
  \/ Tick
SpecAudit == Init /\ [][NextAudit]_vars

(***************************************************************************)
(* Two evidence items worked on by concurrent workers: a handler on one    *)
(* item runs between the read part and the commit of a handler on the      *)
(* other.                                                                  *)
(***************************************************************************)
MaxPairAudit == 4        \* audit_logs rows a run of SpecPair writes
BeginPair(w, r) ==
  /\ sess[w].op = "idle"
  /\ \A v \in Workers : v < w => sess[v].op # "idle"
  /\ Len(audit_logs) + InFlight < MaxPairAudit
  /\ r.code = 200
  /\ sess' = [sess EXCEPT ![w] = r.uow]
  /\ UNCHANGED <<tables, clock, op_count>>
PairCreate(w) ==
  \E u \in Users, form \in EvidenceForms(SeqCaseNos) :
     BeginPair(w, create_evidence_read(u, form))
PairRequest(w) ==
  \E u \in Users, data \in TransferRequests : BeginPair(w, request_transfer_read(u, data))
PairDownload(w) ==
  \E u \in Users, e \in IdsAndMissing(evidence), f \in IdsAndMissing(evidence_files) :
     BeginPair(w, download_file_read(u, e, f))
PairCommit(w) ==
  /\ sess[w].op # "idle"
  /\ Commit(w, sess[w].op)
NextPair ==
  \/ \E w \in Workers : PairCreate(w)
  \/ \E w \in Workers : PairRequest(w)
  \/ \E w \in Workers : PairDownload(w)
  \/ \E w \in Workers : PairCommit(w)
SpecPair == Init /\ [][NextPair]_vars

(***************************************************************************)
(* Transfers requested and resolved, one request at a time, under the      *)
(* assumption that a transfer one of its parties can resolve is eventually *)
(* resolved.  The run is bounded by the number of transfers requested; a   *)
(* resolution is never held back.                                          *)
(***************************************************************************)
MaxLiveTransfers == 2        \* transfers rows a run of SpecLive writes
Live(r) ==
  /\ r.code = 200
  /\ Write(r.uow)
  /\ Count(r.uow)
  /\ UNCHANGED <<clock, sess>>
LiveCreate ==
  \E u \in Users, form \in EvidenceForms(RacedCaseNos) : Live(create_evidence_read(u, form))
LiveRequest ==
  /\ Len(transfers) < MaxLiveTransfers
  /\ \E u \in Users, data \in TransferRequests : Live(request_transfer_read(u, data))
LiveAccept(t) == \E u \in Users : Live(accept_transfer_read(u, t))
LiveCancel(t) == \E u \in Users : Live(cancel_transfer_read(u, t))
LiveReject(t) == \E u \in Users : Live(reject_transfer_read(u, t))
LiveResolve(t) == LiveAccept(t) \/ LiveCancel(t) \/ LiveReject(t)
NextLive ==
  \/ LiveCreate
  \/ LiveRequest
  \/ \E t \in 1..MaxLiveTransfers : LiveAccept(t)
  \/ \E t \in 1..MaxLiveTransfers : LiveCancel(t)
  \/ \E t \in 1..MaxLiveTransfers : LiveReject(t)
SpecLive ==
  Init /\ [][NextLive]_vars /\ \A t \in 1..MaxLiveTransfers : WF_vars(LiveResolve(t))

(***************************************************************************)
(* Properties of the custody state machine.                                *)
(***************************************************************************)
CustodyRowsOf(e) == {i \in Ids(custody) : custody[i].evidence_id = e}
PendingOf(e) ==
  {t \in Ids(transfers) : transfers[t].evidence_id = e /\ transfers[t].status = "PENDING"}
LedgerHas(e, action, transfer_id) ==
  \E i \in Ids(audit_logs) :
     /\ audit_logs[i].evidence_id = e
     /\ audit_logs[i].action = action
     /\ JsonLoads(audit_logs[i].details_json).transfer_id = transfer_id

(* C1: in every reachable state, under any interleaving of the handlers,   *)
(* every evidence item has exactly one Custody row and every Custody row   *)
(* belongs to an evidence item; so request_transfer never answers "No      *)
(* custody record found" and accept_transfer never takes its branch that   *)
(* inserts a Custody row.                                                  *)
C1_ExactlyOneCustody ==
  /\ \A e \in Ids(evidence) : Cardinality(CustodyRowsOf(e)) = 1
  /\ \A i \in Ids(custody) : custody[i].evidence_id \in Ids(evidence)
  /\ \A u \in Users, data \in TransferRequests :
        request_transfer_read(u, data).code # 500
  /\ \A u \in Users, t \in Ids(transfers) :
        LET r == accept_transfer_read(u, t)
        IN  r.code = 200 => r.uow.custody_id # 0
  /\ \A w \in Workers : sess[w].op = "accept_transfer" => sess[w].custody_id # 0
\* an accept has run through its custody branch
C1_Witness ==
  /\ \E t \in Ids(transfers) : transfers[t].status = "ACCEPTED"
  /\ Cardinality(CustodyRowsOf(1)) = 1

\* worker w commits the accept of a transfer of evidence item e in this step
AcceptCommits(w, e) ==
  /\ sess[w].op = "accept_transfer" /\ sess'[w] = Idle
  /\ transfers[sess[w].transfer_id].evidence_id = e
  /\ transfers'[sess[w].transfer_id].status = "ACCEPTED"
C2_Step ==
  /\ \A i \in Ids(custody) :
        /\ i \in Ids(custody')
        /\ custody'[i] # custody[i] =>
             \E w \in Workers :
                /\ AcceptCommits(w, custody[i].evidence_id)
                /\ custody'[i].current_user_id =
                     transfers[sess[w].transfer_id].to_user_id
  /\ \A w \in Workers :
        (/\ sess[w].op \in {"request_transfer", "cancel_transfer", "reject_transfer",
                            "download_file", "create_analysis"}
         /\ sess'[w] = Idle) => custody' = custody
  /\ (\E w \in Workers : sess[w] = Idle /\ sess'[w] # Idle) => custody' = custody
(* C2: a step that changes a Custody row is the commit of a successful     *)
(* accept_transfer of a transfer of that item, and the new holder is that  *)
(* transfer's to_user; the commits of request_transfer, cancel_transfer,   *)
(* reject_transfer, download_file and create_analysis, and every handler   *)
(* before its commit, leave all Custody rows as they are.                  *)
C2_HolderChangesOnlyByAccept == [][C2_Step]_vars
\* the holder has changed by an accept and the new holder has requested again
C2_Witness ==
  /\ Len(custody) = 1 /\ Len(evidence) = 1
  /\ custody[1].current_user_id # evidence[1].collected_by_user_id
  /\ \E t \in Ids(transfers) :
        /\ transfers[t].status = "PENDING"
        /\ transfers[t].from_user_id = custody[1].current_user_id

(* C3: in every reachable state an evidence item has at most one Transfer  *)
(* with status PENDING, also when request_transfer runs concurrently.      *)
C3_AtMostOnePending ==
  \A e \in Ids(evidence) : Cardinality(PendingOf(e)) <= 1

\* user u is the holder of item e, which has a PENDING transfer
HolderWithPending(u, e) ==
  /\ e \in Ids(evidence)
  /\ PendingOf(e) # {}
  /\ \E i \in CustodyRowsOf(e) : custody[i].current_user_id = u
(* C4, as claimed: when an item has a PENDING transfer, every              *)
(* request_transfer for it by its holder fails with 400 (conflict) and     *)
(* leaves no unit of work, so no row is written.                           *)
C4_SecondRequestConflicts ==
  \A u \in Users, data \in TransferRequests :
     HolderWithPending(u, data.evidence_id) =>
        LET r == request_transfer_read(u, data)
        IN  r.code = 400 /\ r.uow = Idle
(* C4, amended: when an item has a PENDING transfer, a request_transfer    *)
(* for it by its holder fails and leaves no unit of work, so no row is     *)
(* written: with 400 (conflict) when the recipient exists, with 404 when   *)
(* the recipient does not exist.                                           *)
C4_SecondRequestFails ==
  \A u \in Users, data \in TransferRequests :
     HolderWithPending(u, data.evidence_id) =>
        LET r == request_transfer_read(u, data)
        IN  /\ r.uow = Idle
            /\ r.code = IF UserExists(data.to_user_id) THEN 400 ELSE 404
\* the holder of an item with a PENDING transfer is refused a second request
C4_Witness ==
  \E u \in Users, data \in TransferRequests :
     /\ HolderWithPending(u, data.evidence_id)
     /\ UserExists(data.to_user_id)
     /\ request_transfer_read(u, data).code = 400

(***************************************************************************)
(* Properties of the audit ledger.                                         *)
(***************************************************************************)
StoredHashes(e) ==
  LET ids == LedgerIds(audit_logs, e)
  IN  [i \in 1..Len(ids) |-> audit_logs[ids[i]].entry_hash_hex]

(* C5: after any sequence of N successful audit-producing requests handled *)
(* one after another on an evidence item, verify_audit_chain reports       *)
(* chain_valid, reports N entries, and the hash it recomputes for every    *)
(* entry from the stored row equals the stored entry_hash.                 *)
C5_ChainIntegrity ==
  \A e \in Ids(evidence) :
     LET v == verify_audit_chain(audit_logs, e)
     IN  /\ v.chain_valid
         /\ v.total_entries = op_count[e]
         /\ Len(v.verification_details) = op_count[e]
         /\ \A i \in 1..op_count[e] :
               v.verification_details[i].expected_entry_hash = StoredHashes(e)[i]
\* creation, request and accept have written a ledger of three entries, the
\* clock having moved in between
C5_Witness ==
  \E e \in Ids(evidence) :
     /\ op_count[e] = 3
     /\ \E t \in Ids(transfers) : LedgerHas(e, "TRANSFER_ACCEPTED", t)
     /\ clock > 0
     /\ verify_audit_chain(audit_logs, e).total_entries = 3

(* C6: under any interleaving of concurrent audit-producing requests on    *)
(* one evidence item the ledger does not fork: no two entries of the item  *)
(* carry the same prev_hash, every later entry's prev_hash is the          *)
(* entry_hash of the entry before it, and verify_audit_chain reports       *)
(* chain_valid.                                                            *)
C6_NoFork ==
  \A e \in Ids(evidence) :
     LET ids == LedgerIds(audit_logs, e)
     IN  /\ \A i, j \in 1..Len(ids) :
               i # j => audit_logs[ids[i]].prev_hash_hex # audit_logs[ids[j]].prev_hash_hex
         /\ \A i \in 2..Len(ids) :
               audit_logs[ids[i]].prev_hash_hex = audit_logs[ids[i-1]].entry_hash_hex
         /\ verify_audit_chain(audit_logs, e).chain_valid

\* A stored row changed behind the application's back: one column of one row
TamperField(logs, id, field, value) ==
  [logs EXCEPT ![id] = [@ EXCEPT ![field] = value]]
ForgedDetails(log) ==
  JsonDumps([JsonLoads(log.details_json) EXCEPT !.action = "FORGED"])
ForgedActions(log) ==
  {a \in {"TRANSFER_ACCEPTED", "FILE_DOWNLOADED", "FORGED"} : a # log.action}
ForgedHash == Sha256(<<"forged">>)
\* The values a column of a row may be changed to
TamperValues(logs, id, field) ==
  LET log == logs[id]
      hashes == {GenesisHash, ForgedHash, logs[1].entry_hash_hex,
                 logs[Len(logs)].entry_hash_hex}
      values ==
        CASE field = "evidence_id" -> IdsAndMissing(evidence)
          [] field = "actor_user_id" -> Users \cup {NoUser}
          [] field = "action" -> ForgedActions(log)
          [] field = "details_json" -> {ForgedDetails(log)}
          [] field = "ts_utc" -> {[log.ts_utc EXCEPT !.sec = @ + 1],
                                  [log.ts_utc EXCEPT !.us = HalfSecondUs]}
          [] field \in {"prev_hash_hex", "entry_hash_hex"} -> hashes
  IN  {v \in values : v # log[field]}
StoredFields ==
  {"evidence_id", "actor_user_id", "action", "details_json", "ts_utc",
   "prev_hash_hex", "entry_hash_hex"}
EntryValid(logs, e, j) == verify_audit_chain(logs, e).verification_details[j].entry_valid

(* C7, as claimed: when the details or the action of the k-th entry of a   *)
(* valid chain is changed in the store, verify_audit_chain reports entry k *)
(* and every entry after k as invalid.                                     *)
C7_TamperInvalidatesSuffix ==
  \A e \in Ids(evidence) :
     LET ids == LedgerIds(audit_logs, e)
     IN  verify_audit_chain(audit_logs, e).chain_valid =>
           \A k \in 1..Len(ids), field \in {"details_json", "action"} :
              \A v \in TamperValues(audit_logs, ids[k], field) :
                 \A j \in k..Len(ids) :
                    ~EntryValid(TamperField(audit_logs, ids[k], field, v), e, j)
(* C7, amended: when the details or the action of the k-th entry of a      *)
(* valid chain is changed in the store, verify_audit_chain reports         *)
(* chain_valid = false and entry k as invalid (its entry hash does not     *)
(* match); every other entry, those after k included, is still reported    *)
(* valid, because the walk continues from the stored entry_hash of k.      *)
C7_TamperInvalidatesEntry ==
  \A e \in Ids(evidence) :
     LET ids == LedgerIds(audit_logs, e)
     IN  verify_audit_chain(audit_logs, e).chain_valid =>
           \A k \in 1..Len(ids), field \in {"details_json", "action"} :
              \A x \in TamperValues(audit_logs, ids[k], field) :
                 LET v == verify_audit_chain(TamperField(audit_logs, ids[k], field, x), e)
                 IN  /\ ~v.chain_valid
                     /\ v.total_entries = Len(ids)
                     /\ ~v.verification_details[k].entry_hash_valid
                     /\ v.verification_details[k].prev_hash_valid
                     /\ \A j \in 1..Len(ids) :
                           v.verification_details[j].entry_valid <=> j # k
\* the first of three entries is changed: it is flagged, the two after it are not
C7_Witness ==
  \E e \in Ids(evidence) :
     LET ids == LedgerIds(audit_logs, e)
     IN  /\ Len(ids) >= 3
         /\ \E x \in TamperValues(audit_logs, ids[1], "details_json") :
               LET logs == TamperField(audit_logs, ids[1], "details_json", x)
               IN  /\ ~EntryValid(logs, e, 1)
                   /\ EntryValid(logs, e, 2) /\ EntryValid(logs, e, 3)

ResolutionEntries(t) ==
  {i \in Ids(audit_logs) :
     /\ audit_logs[i].evidence_id = transfers[t].evidence_id
     /\ audit_logs[i].action \in {"TRANSFER_ACCEPTED", "TRANSFER_CANCELLED",
                                  "TRANSFER_REJECTED"}
     /\ JsonLoads(audit_logs[i].details_json).transfer_id = t}
AcceptedEntries(t) ==
  {i \in ResolutionEntries(t) : audit_logs[i].action = "TRANSFER_ACCEPTED"}

(* C9: accept_transfer is atomic: in every committed state a transfer has  *)
(* status ACCEPTED with accepted_at set exactly when the ledger holds its  *)
(* TRANSFER_ACCEPTED entry, it has at most one such entry, and the holder  *)
(* of an item whose ledger holds TRANSFER_ACCEPTED entries is the actor    *)
(* (the to_user) of the last of them; a holder other than the creator has  *)
(* such an entry.                                                          *)
C9_AcceptEffectsTogether ==
  /\ \A t \in Ids(transfers) :
        /\ (transfers[t].status = "ACCEPTED" /\ transfers[t].accepted_at_utc # NoneDt)
             <=> AcceptedEntries(t) # {}
        /\ transfers[t].status = "ACCEPTED" => transfers[t].accepted_at_utc # NoneDt
        /\ Cardinality(AcceptedEntries(t)) <= 1
  /\ \A c \in Ids(custody) :
        LET e == custody[c].evidence_id
            IsAccept(row) == row.evidence_id = e /\ row.action = "TRANSFER_ACCEPTED"
            last == LastId({i \in Ids(audit_logs) : IsAccept(audit_logs[i])})
        IN  IF last = 0
              THEN custody[c].current_user_id = evidence[e].collected_by_user_id
              ELSE custody[c].current_user_id = audit_logs[last].actor_user_id

(* C10: when an accept_transfer races a cancel_transfer, a reject_transfer *)
(* or another accept_transfer of the same PENDING transfer, exactly one    *)
(* takes effect: no state is reachable in which the transfer is CANCELLED  *)
(* while its acceptance moved the custody, nor one in which two            *)
(* resolutions of the transfer committed.                                  *)
C10_OneResolutionWins ==
  \A t \in Ids(transfers) :
     /\ ~(transfers[t].status = "CANCELLED" /\ AcceptedEntries(t) # {})
     /\ Cardinality(ResolutionEntries(t)) <= 1

Terminal(t) == transfers[t].status \in {"ACCEPTED", "CANCELLED"}
C11_Step ==
  \A t \in Ids(transfers) :
     Terminal(t) =>
        /\ t \in Ids(transfers')
        /\ transfers'[t].status = transfers[t].status
        /\ transfers'[t].from_user_id = transfers[t].from_user_id
        /\ transfers'[t].to_user_id = transfers[t].to_user_id
        /\ transfers'[t].accepted_at_utc = transfers[t].accepted_at_utc
        /\ LET a == accept_transfer_read(transfers[t].to_user_id, t)
               r == reject_transfer_read(transfers[t].to_user_id, t)
               c == cancel_transfer_read(transfers[t].from_user_id, t)
           IN  /\ a.code = 400 /\ a.uow = Idle
               /\ r.code = 400 /\ r.uow = Idle
               /\ c.code = 400 /\ c.uow = Idle
(* C11: once a transfer is ACCEPTED or CANCELLED no step changes its       *)
(* status, from_user, to_user or accepted_at, and accept_transfer,         *)
(* reject_transfer (by to_user) and cancel_transfer (by from_user) on it   *)
(* fail with 400 (invalid state) and leave no unit of work.                *)
C11_TerminalImmutable == [][C11_Step]_vars

IsHolder(u, e) == \E i \in CustodyRowsOf(e) : custody[i].current_user_id = u
\* worker w commits a request_transfer in this step
RequestCommits(w) == sess[w].op = "request_transfer" /\ sess'[w] = Idle
C12_Step ==
  /\ \A u \in Users, data \in TransferRequests :
        LET r == request_transfer_read(u, data)
        IN  /\ r.code = 200 => IsHolder(u, data.evidence_id)
            /\ (data.evidence_id \in Ids(evidence) /\ ~IsHolder(u, data.evidence_id))
                 => r.code = 403 /\ r.uow = Idle
  /\ \A w \in Workers :
        RequestCommits(w) =>
           /\ IsHolder(sess[w].user, sess[w].evidence_id)
           /\ Len(transfers') = Len(transfers) + 1
           /\ \A t \in Ids(transfers) : transfers'[t] = transfers[t]
           /\ transfers'[Len(transfers')].status = "PENDING"
           /\ transfers'[Len(transfers')].from_user_id = sess[w].user
           /\ transfers'[Len(transfers')].evidence_id = sess[w].evidence_id
           /\ custody' = custody
(* C12: request_transfer succeeds only for the current holder of the item: *)
(* for any other caller it fails with 403 and leaves no unit of work, and  *)
(* the request that commits is the holder's, adds exactly one Transfer     *)
(* with status PENDING and from_user = caller, and leaves Custody as it    *)
(* is.                                                                     *)
C12_OnlyHolderRequests == [][C12_Step]_vars

(* C13: accept_transfer and reject_transfer take effect only for the       *)
(* transfer's to_user and cancel_transfer only for its from_user: for      *)
(* every other caller they fail with 403 and leave no unit of work, and    *)
(* every unit of work a session holds is the authorized caller's.          *)
C13_ResolutionAuthority ==
  /\ \A u \in Users, t \in Ids(transfers) :
        /\ u # transfers[t].to_user_id =>
              /\ accept_transfer_read(u, t).code = 403
              /\ accept_transfer_read(u, t).uow = Idle
              /\ reject_transfer_read(u, t).code = 403
              /\ reject_transfer_read(u, t).uow = Idle
        /\ u # transfers[t].from_user_id =>
              /\ cancel_transfer_read(u, t).code = 403
              /\ cancel_transfer_read(u, t).uow = Idle
  /\ \A w \in Workers :
        /\ sess[w].op \in {"accept_transfer", "reject_transfer"} =>
              sess[w].user = transfers[sess[w].transfer_id].to_user_id
        /\ sess[w].op = "cancel_transfer" =>
              sess[w].user = transfers[sess[w].transfer_id].from_user_id
\* a PENDING transfer between two different users, its sender refused the
\* accept while its recipient's reject is under way
C13_Witness ==
  \E t \in Ids(transfers), w \in Workers :
     /\ transfers[t].status = "PENDING"
     /\ transfers[t].from_user_id # transfers[t].to_user_id
     /\ accept_transfer_read(transfers[t].from_user_id, t).code = 403
     /\ sess[w].op = "reject_transfer" /\ sess[w].transfer_id = t

\* worker w commits the cancel or reject of a transfer that is PENDING
ResolveCommits(w) ==
  /\ sess[w].op \in {"cancel_transfer", "reject_transfer"}
  /\ sess'[w] = Idle
  /\ transfers[sess[w].transfer_id].status = "PENDING"
C14_Step ==
  \A w \in Workers, t \in Ids(transfers), e \in Ids(evidence) :
     (ResolveCommits(w) /\ t = sess[w].transfer_id /\ e = transfers[t].evidence_id) =>
        LET entry == audit_logs'[Len(audit_logs')]
        IN  /\ transfers'[t].status = "CANCELLED"
            /\ transfers'[t].accepted_at_utc = NoneDt
            /\ custody' = custody
            /\ Len(audit_logs') = Len(audit_logs) + 1
            /\ \A i \in Ids(audit_logs) : audit_logs'[i] = audit_logs[i]
            /\ entry.evidence_id = e /\ entry.actor_user_id = sess[w].user
            /\ entry.action = IF sess[w].op = "cancel_transfer"
                                THEN "TRANSFER_CANCELLED" ELSE "TRANSFER_REJECTED"
            /\ sess[w].op = "cancel_transfer" => sess[w].user = transfers[t].from_user_id
            /\ sess[w].op = "reject_transfer" => sess[w].user = transfers[t].to_user_id
            /\ \A u \in Users, to \in Users :
                  IsHolder(u, e)' =>
                     request_transfer_read(u, [evidence_id |-> e, to_user_id |-> to,
                                               reason |-> "handover"])'.code = 200
(* C14: a cancel_transfer or reject_transfer that commits on a PENDING     *)
(* transfer sets its status to CANCELLED, leaves accepted_at unset and     *)
(* Custody unchanged, and appends exactly one audit entry, with action     *)
(* TRANSFER_CANCELLED for the cancel by from_user and TRANSFER_REJECTED    *)
(* for the reject by to_user; afterwards a request_transfer of the item by *)
(* its holder succeeds.                                                    *)
C14_CancelOrReject == [][C14_Step]_vars

(***************************************************************************)
(* Properties of the handlers and the ledger.                              *)
(***************************************************************************)
ActionTag(op) ==
  CASE op = "create_evidence" -> "EVIDENCE_CREATED"
    [] op = "request_transfer" -> "TRANSFER_REQUESTED"
    [] op = "accept_transfer" -> "TRANSFER_ACCEPTED"
    [] op = "cancel_transfer" -> "TRANSFER_CANCELLED"
    [] op = "reject_transfer" -> "TRANSFER_REJECTED"
    [] op = "download_file" -> "FILE_DOWNLOADED"
    [] op = "create_analysis" -> "ANALYSIS_CREATED"
\* worker w ends its request in this step
Ends(w) == sess[w].op # "idle" /\ sess'[w] = Idle
C15_Step ==
  /\ \A w \in Workers :
        Ends(w) =>
           IF Commits(sess[w])
             THEN /\ Len(audit_logs') = Len(audit_logs) + 1
                  /\ \A i \in Ids(audit_logs) : audit_logs'[i] = audit_logs[i]
                  /\ audit_logs'[Len(audit_logs')].action = ActionTag(sess[w].op)
                  /\ audit_logs'[Len(audit_logs')].actor_user_id = sess[w].user
                  /\ audit_logs'[Len(audit_logs')].evidence_id =
                       IF sess[w].op = "create_evidence"
                         THEN Len(evidence') ELSE sess[w].evidence_id
             ELSE audit_logs' = audit_logs
  /\ (\A w \in Workers : ~Ends(w)) => audit_logs' = audit_logs
  /\ \A e \in Ids(evidence') : Len(LedgerIds(audit_logs', e)) = op_count'[e]
DuplicateCase(case_no) == \E i \in Ids(evidence) : evidence[i].case_no = case_no
DuplicateEvidenceId(id_str) ==
  \E i \in Ids(evidence) : evidence[i].evidence_id_str = id_str
Refused(u, form) ==
  \/ UserRole(u) \notin {"COLLECTOR", "ANALYST", "ADMIN"}
  \/ DuplicateCase(form.case_no)
  \/ DuplicateEvidenceId(EvidenceIdStr(form.agency, form.case_no, form.item_no))
  \/ form.files = <<>>
  \/ \E k \in 1..Len(form.files) :
        \/ form.files[k].content_type \notin allowed_mime_types
        \/ form.files[k].size > max_file_size
  \/ form.collected_at # ValidIso
\* a refused call gets a 4xx answer and has no unit of work to commit
C16_RefusedEarly ==
  \A u \in Users, form \in EvidenceForms(SeqCaseNos) :
     LET r == create_evidence_read(u, form)
     IN  /\ Refused(u, form) <=> r.code # 200
         /\ r.code # 200 => r.code \in {400, 403} /\ r.uow = Idle
\* a creation that passed its checks and finds a duplicate at its flush
C16_Step ==
  \A w \in Workers :
     (/\ Ends(w) /\ sess[w].op = "create_evidence"
      /\ \/ DuplicateCase(sess[w].case_no)
         \/ DuplicateEvidenceId(sess[w].evidence_id_str))
     => UNCHANGED <<evidence, evidence_files, custody, audit_logs, storage>>
(* C16: a createEvidence call refused for role, duplicate case number,     *)
(* duplicate composite id, missing files, MIME type, size or timestamp is  *)
(* answered before anything is written: it leaves no unit of work behind;  *)
(* and a call that passed its checks but meets a duplicate when its        *)
(* transaction is flushed, because an interleaved creation of the same     *)
(* case committed first, leaves every table and the blob storage as they   *)
(* were.                                                                   *)
C16_RejectedBeforeMutation == []C16_RefusedEarly /\ [][C16_Step]_vars
\* a creation in flight whose case number was committed by the other worker
C16_Witness ==
  /\ Len(evidence) = 1 /\ DOMAIN storage # {}
  /\ \E w \in Workers :
        /\ sess[w].op = "create_evidence"
        /\ sess[w].case_no = evidence[1].case_no
        /\ create_evidence_read(sess[w].user,
              EvidenceForm(sess[w].case_no, ValidIso, <<UploadOk>>)).code = 400

(* C17: create_evidence fails with 400 when the case number is registered  *)
(* or the composite identifier agency-case_no-item_no exists, and in every *)
(* reachable state, interleaved creations included, no two evidence items  *)
(* share a case number or a composite identifier.                          *)
C17_UniqueEvidence ==
  /\ \A i, j \in Ids(evidence) :
        i # j => /\ evidence[i].case_no # evidence[j].case_no
                 /\ evidence[i].evidence_id_str # evidence[j].evidence_id_str
  /\ \A i \in Ids(evidence) :
        evidence[i].evidence_id_str =
          EvidenceIdStr(evidence[i].agency, evidence[i].case_no, evidence[i].item_no)
  /\ \A u \in Users, c \in SeqCaseNos :
        LET form == EvidenceForm(c, ValidIso, <<UploadOk>>)
            r == create_evidence_read(u, form)
        IN  (/\ can_create_evidence(u)
             /\ \/ DuplicateCase(c)
                \/ DuplicateEvidenceId(EvidenceIdStr(form.agency, c, form.item_no)))
            => r.code = 400 /\ r.uow = Idle
\* the item exists and the other creator's request for its case number, which
\* passed its checks before the commit, is still in flight
C17_Witness ==
  /\ Len(evidence) = 1
  /\ \E w \in Workers :
        /\ sess[w].op = "create_evidence"
        /\ sess[w].evidence_id_str = evidence[1].evidence_id_str
        /\ sess[w].user # evidence[1].collected_by_user_id

\* the ledger of item e starts with the genesis entry of its creator, and has
\* no second one
GenesisFirst(e) ==
  LET ids == LedgerIds(audit_logs, e)
  IN  /\ Len(ids) >= 1
      /\ audit_logs[ids[1]].action = "EVIDENCE_CREATED"
      /\ audit_logs[ids[1]].actor_user_id = evidence[e].collected_by_user_id
      /\ audit_logs[ids[1]].prev_hash_hex = GenesisHash
      /\ \A k \in 2..Len(ids) :
            /\ audit_logs[ids[k]].prev_hash_hex # GenesisHash
            /\ audit_logs[ids[k]].action # "EVIDENCE_CREATED"
C18_AllGenesisFirst == \A e \in Ids(evidence) : GenesisFirst(e)
\* a creation that commits adds the item, its Custody row held by the creator
\* and its genesis entry
C18_Step ==
  \A w \in Workers :
     (Ends(w) /\ sess[w].op = "create_evidence" /\ Len(evidence') # Len(evidence))
     => /\ Len(evidence') = Len(evidence) + 1
        /\ evidence'[Len(evidence')].collected_by_user_id = sess[w].user
        /\ Len(custody') = Len(custody) + 1
        /\ custody'[Len(custody')].evidence_id = Len(evidence')
        /\ custody'[Len(custody')].current_user_id = sess[w].user
        /\ \A i \in Ids(custody) : custody'[i] = custody[i]
        /\ LedgerIds(audit_logs', Len(evidence')) = <<Len(audit_logs')>>
        /\ audit_logs'[Len(audit_logs')].actor_user_id = sess[w].user
(* C18: a successful create_evidence makes the creator the holder of the   *)
(* new item's Custody row and writes the item's genesis entry; in every    *)
(* reachable state the first ledger entry of every evidence item has       *)
(* action EVIDENCE_CREATED, the creator as actor and prev_hash "", and no  *)
(* later entry of the item has prev_hash "" or action EVIDENCE_CREATED.    *)
C18_GenesisEntry == []C18_AllGenesisFirst /\ [][C18_Step]_vars
\* custody has left the creator and the ledger has grown to four entries
C18_Witness ==
  /\ Len(evidence) = 1 /\ GenesisFirst(1)
  /\ Len(LedgerIds(audit_logs, 1)) = 4
  /\ \E i \in CustodyRowsOf(1) :
        custody[i].current_user_id # evidence[1].collected_by_user_id

\* file f is a file of item e
FileOf(f, e) == f \in Ids(evidence_files) /\ evidence_files[f].evidence_id = e
\* what a download request of file f of item e by user u gets in this state
C19_Answer ==
  \A u \in Users, e \in Ids(evidence), f \in Ids(evidence_files) :
     LET r == download_file_read(u, e, f)
     IN  FileOf(f, e) =>
           /\ r.code = 200 <=> IsHolder(u, e)
           /\ ~IsHolder(u, e) => r.code = 403 /\ r.uow = Idle
           /\ r.code = 200 =>
                /\ r.uow.user = u /\ r.uow.evidence_id = e /\ r.uow.file_id = f
                /\ compute_sha256(r.uow.data) = evidence_files[f].sha256_hex
C19_Step ==
  \A w \in Workers :
     \* a download is taken up only for the caller who holds the item
     /\ (sess[w] = Idle /\ sess'[w].op = "download_file")
        => /\ IsHolder(sess'[w].user, sess'[w].evidence_id)
           /\ FileOf(sess'[w].file_id, sess'[w].evidence_id)
           /\ audit_logs' = audit_logs
     \* and answers with the bytes once its one entry is committed
     /\ (sess[w].op = "download_file" /\ sess'[w] = Idle)
        => /\ Len(audit_logs') = Len(audit_logs) + 1
           /\ \A i \in Ids(audit_logs) : audit_logs'[i] = audit_logs[i]
           /\ audit_logs'[Len(audit_logs')].action = "FILE_DOWNLOADED"
           /\ audit_logs'[Len(audit_logs')].actor_user_id = sess[w].user
           /\ audit_logs'[Len(audit_logs')].evidence_id = sess[w].evidence_id
           /\ JsonLoads(audit_logs'[Len(audit_logs')].details_json).file_id =
                sess[w].file_id
           /\ UNCHANGED <<evidence, evidence_files, custody, transfers, storage>>
(* C19: download_file hands out the bytes of an evidence file only to the  *)
(* user who holds the item's Custody row when the request is made,         *)
(* whatever the user's role, and so not to the creator or a former holder  *)
(* once custody has moved; any other caller gets 403, no bytes and no      *)
(* entry; a successful download commits exactly one FILE_DOWNLOADED entry  *)
(* of the caller for that file before it answers.                          *)
C19_DownloadByHolderOnly == []C19_Answer /\ [][C19_Step]_vars
\* custody has moved and the new holder has downloaded; the creator is refused
C19_Witness ==
  /\ Len(evidence) = 1 /\ FileOf(1, 1)
  /\ ~IsHolder(evidence[1].collected_by_user_id, 1)
  /\ download_file_read(evidence[1].collected_by_user_id, 1, 1).code = 403
  /\ \E i \in Ids(audit_logs), u \in Users :
        /\ audit_logs[i].action = "FILE_DOWNLOADED"
        /\ audit_logs[i].actor_user_id = u
        /\ IsHolder(u, 1)
        /\ u # evidence[1].collected_by_user_id

\* the storage directory after the blob called name was replaced by blob
ReplaceBlob(store, name, blob) == [store EXCEPT ![name] = blob]
\* blobs encrypted under the process key from some other content
OtherBlobs == { EncryptedData(nonce, <<3, 4>>) : nonce \in Nonces }
\* the content of blob does not hash to the digest recorded in row
Mismatch(blob, row) ==
  LET decrypted == decrypt_file_data(ReplaceBlob(storage, row.cipher_path, blob),
                                     row.cipher_path)
  IN  decrypted.ok /\ compute_sha256(decrypted.plaintext) # row.sha256_hex
\* download_file refuses a replaced blob of an evidence file
EvidenceFileVerified ==
  \A u \in Users, blob \in OtherBlobs, e \in Ids(evidence), f \in Ids(evidence_files) :
     (FileOf(f, e) /\ IsHolder(u, e) /\ Mismatch(blob, evidence_files[f]))
     => LET r == download_file_from(
                   ReplaceBlob(storage, evidence_files[f].cipher_path, blob), u, e, f)
        IN  r.code = 500 /\ r.uow = Idle
\* download_analysis_file refuses a replaced blob of an analysis file
AnalysisFileVerified ==
  \A u \in Users, blob \in OtherBlobs, a \in Ids(analysis), f \in Ids(analysis_files) :
     (/\ analysis_files[f].analysis_id = a
      /\ IsHolder(u, analysis[a].evidence_id)
      /\ Mismatch(blob, analysis_files[f]))
     => LET r == download_analysis_file(
                   ReplaceBlob(storage, analysis_files[f].cipher_path, blob), u, a, f)
        IN  r.code = 500 /\ r.data = <<>>
(* C20: no download releases bytes whose SHA-256 differs from the digest   *)
(* recorded when the file was stored: when the blob of an evidence file or *)
(* of an analysis file is replaced by another blob that decrypts under the *)
(* key to different content, the holder's download is answered 500 with   *)
(* no data and nothing to commit.                                          *)
C20_NoUnverifiedRelease == EvidenceFileVerified /\ AnalysisFileVerified


\* the ledger of item e is the hand-over of the demonstration: created by a,
\* requested by a for b, accepted by b, followed by the entries named in more
LedgerActions(e) ==
  LET ids == LedgerIds(audit_logs, e)
  IN  [k \in 1..Len(ids) |-> audit_logs[ids[k]].action]
HandedOver(e, a, b, more) ==
  LET ids == LedgerIds(audit_logs, e)
  IN  /\ a # b
      /\ LedgerActions(e) =
           <<"EVIDENCE_CREATED", "TRANSFER_REQUESTED", "TRANSFER_ACCEPTED">> \o more
      /\ audit_logs[ids[1]].actor_user_id = a
      /\ audit_logs[ids[2]].actor_user_id = a
      /\ JsonLoads(audit_logs[ids[2]].details_json).to_user = UserName(b)
      /\ audit_logs[ids[3]].actor_user_id = b
\* entry k of the ledger of e carries the hash of entry k - 1 as its prev_hash
ChainedToPrevious(e) ==
  LET ids == LedgerIds(audit_logs, e)
  IN  \A k \in 1..Len(ids) :
         audit_logs[ids[k]].prev_hash_hex =
           IF k = 1 THEN GenesisHash ELSE audit_logs[ids[k - 1]].entry_hash_hex
(* C21: after create_evidence by user a, request_transfer from a to b and  *)
(* accept_transfer by b, b holds the item and verify_audit_chain reports   *)
(* chain_valid with exactly the three entries EVIDENCE_CREATED,            *)
(* TRANSFER_REQUESTED, TRANSFER_ACCEPTED, each chained to the one before;  *)
(* a download by b is then answered 200 with an entry chained to the       *)
(* ledger tail, and when it has committed the ledger has four valid        *)
(* entries; the same download by a is answered 403 and adds nothing.       *)
C21_HandOverScenario ==
  \A e \in Ids(evidence), a \in AllUsers, b \in AllUsers :
     /\ HandedOver(e, a, b, <<>>)
        => LET v == verify_audit_chain(audit_logs, e)
           IN  /\ IsHolder(b, e) /\ ~IsHolder(a, e)
               /\ v.chain_valid /\ v.total_entries = 3 /\ ChainedToPrevious(e)
               /\ \A f \in Ids(evidence_files) :
                     FileOf(f, e) =>
                       LET by_b == download_file_read(b, e, f)
                           by_a == download_file_read(a, e, f)
                       IN  /\ by_b.code = 200
                           /\ by_b.uow.audit_log.action = "FILE_DOWNLOADED"
                           /\ by_b.uow.audit_log.prev_hash_hex = TailHash(audit_logs, e)
                           /\ by_a.code = 403 /\ by_a.uow = Idle
     /\ (/\ HandedOver(e, a, b, <<"FILE_DOWNLOADED">>)
         /\ audit_logs[LedgerIds(audit_logs, e)[4]].actor_user_id = b)
        => LET v == verify_audit_chain(audit_logs, e)
           IN  /\ IsHolder(b, e)
               /\ v.chain_valid /\ v.total_entries = 4 /\ ChainedToPrevious(e)
\* the hand-over has happened and the new holder's download is committed
C21_Witness ==
  \E a \in Users, b \in Users :
     /\ HandedOver(1, a, b, <<"FILE_DOWNLOADED">>)
     /\ audit_logs[LedgerIds(audit_logs, 1)[4]].actor_user_id = b
     /\ download_file_read(a, 1, 1).code = 403


(***************************************************************************)
(* Properties of the cipher store.                                         *)
(***************************************************************************)
(* C22: for every byte payload P, the empty one included, and every nonce, *)
(* decrypt_file_data of the file name returned by encrypt_file_data(P)     *)
(* returns exactly P, and the digest returned by encrypt_file_data is the  *)
(* SHA-256 of the plaintext P, not of the ciphertext or of the blob; the   *)
(* blobs stored before stay as they were.                                  *)
C22_RoundTrip ==
  \A plaintext \in Payloads, nonce \in StoreNonces :
     LET enc == encrypt_file_data(storage, nonce, plaintext)
         blob == enc.storage[enc.cipher_filename]
         ciphertext == SubSeq(blob, NonceLen + 1, Len(blob) - TagLen)
     IN  /\ enc.cipher_filename \notin DOMAIN storage
         /\ decrypt_file_data(enc.storage, enc.cipher_filename) =
              [ok |-> TRUE, error |-> "", plaintext |-> plaintext]
         /\ enc.sha256_hex = Sha256(plaintext)
         /\ ciphertext # plaintext => enc.sha256_hex # Sha256(ciphertext)
         /\ enc.sha256_hex # Sha256(blob)
         /\ \A name \in DOMAIN storage : enc.storage[name] = storage[name]
\* two blobs are stored, the empty payload among them, and both decrypt
C22_Witness ==
  /\ Cardinality(DOMAIN storage) = 2
  /\ \E name \in DOMAIN storage :
        decrypt_file_data(storage, name) = [ok |-> TRUE, error |-> "", plaintext |-> <<>>]
  /\ \E name \in DOMAIN storage :
        decrypt_file_data(storage, name) =
          [ok |-> TRUE, error |-> "", plaintext |-> <<1, 2>>]


\* the values a flip may leave in a byte: any other value of the byte
FlipMasks == {1, 128, 255}
\* blob with byte i changed; the bytes of the symbolic tag stay symbolic
FlipByte(blob, i, mask) ==
  [blob EXCEPT ![i] = IF i <= Len(blob) - TagLen THEN (@ + mask) % 256
                      ELSE <<"flipped", mask, @>>]
\* file names under which the storage directory holds nothing
MissingNames == { <<"uuid", k>> : k \in 0..(MaxBlobs + 1) } \ DOMAIN storage
(* C23: flipping any byte of a stored encrypted blob, in the nonce, the    *)
(* ciphertext or the tag, makes decrypt_file_data fail with InvalidTag,    *)
(* and a file name that does not exist makes it fail with                  *)
(* FileNotFoundError; in both cases no plaintext is returned.              *)
C23_TamperOrMissingFails ==
  /\ \A name \in DOMAIN storage, mask \in FlipMasks :
        \A i \in 1..Len(storage[name]) :
           decrypt_file_data(ReplaceBlob(storage, name, FlipByte(storage[name], i, mask)),
                             name)
             = [ok |-> FALSE, error |-> "InvalidTag", plaintext |-> <<>>]
  /\ \A name \in MissingNames :
        decrypt_file_data(storage, name)
          = [ok |-> FALSE, error |-> "FileNotFoundError", plaintext |-> <<>>]
\* a blob with two bytes of ciphertext is stored next to one with none
C23_Witness ==
  /\ \E name \in DOMAIN storage : Len(storage[name]) = NonceLen + 2 + TagLen
  /\ \E name \in DOMAIN storage : Len(storage[name]) = NonceLen + TagLen
  /\ \E name \in DOMAIN storage :
        ~decrypt_file_data(ReplaceBlob(storage, name,
                                       FlipByte(storage[name], NonceLen + 1, 1)),
                           name).ok


(***************************************************************************)
(* Properties of the read side.                                            *)
(***************************************************************************)
\* what the visibility rule says: AUDITOR, the creator, the current holder
MayView(u, e) ==
  \/ UserRole(u) = "AUDITOR"
  \/ evidence[e].collected_by_user_id = u
  \/ IsHolder(u, e)
\* the items on the pages of list_evidence(u) cut with per_page items a page
Listed(u, per_page) ==
  UNION { LET items == list_evidence(u, page, per_page).items
          IN  {items[k] : k \in 1..Len(items)} : page \in 1..(Len(evidence) + 1) }
(* C24: in every reachable state, for every user u and evidence item e, e  *)
(* is on the pages of list_evidence for u iff get_evidence(e) answers u    *)
(* with 200 iff u is AUDITOR, created e or holds e now; so an ADMIN sees   *)
(* nothing more than that, the creator keeps seeing the item after handing *)
(* it over, and a holder who did not create it stops seeing it when        *)
(* custody moves on.                                                       *)
C24_Visibility ==
  \A u \in AllUsers, e \in Ids(evidence) :
     /\ get_evidence(u, e).code = 200 <=> MayView(u, e)
     /\ ~MayView(u, e) => get_evidence(u, e).code = 403
     /\ \A per_page \in {1, 20} : e \in Listed(u, per_page) <=> MayView(u, e)
     /\ list_evidence(u, 1, 20).total = Cardinality({i \in Ids(evidence) : MayView(u, i)})
\* custody went from the creator to a second and on to a third user: the
\* creator still sees the item, the second user no more, and ADMIN as any user
C24_Witness ==
  \E a, b, c \in AllUsers :
     /\ Len(evidence) = 1 /\ evidence[1].collected_by_user_id = a
     /\ b # a /\ c # b /\ c # a /\ UserRole(b) # "AUDITOR"
     /\ IsHolder(c, 1)
     /\ \E t \in Ids(transfers) :
           transfers[t].to_user_id = b /\ transfers[t].status = "ACCEPTED"
     /\ get_evidence(a, 1).code = 200
     /\ get_evidence(b, 1).code = 403 /\ 1 \notin Listed(b, 20)
     /\ AdminUser \notin {a, b, c}
     /\ get_evidence(AdminUser, 1).code = 403 /\ 1 \notin Listed(AdminUser, 20)


(***************************************************************************)
(* Properties of analyses.                                                 *)
(***************************************************************************)
\* what a create_analysis request of user u for item e gets in this state
C25_Answer ==
  \A u \in Users, e \in Ids(evidence), form \in AnalysisForms(SeqUploads) :
     LET r == create_analysis_read(u, form)
     IN  form.evidence_id = e =>
           /\ r.code = 200 => IsHolder(u, e)
           /\ ~IsHolder(u, e) => r.code = 403 /\ r.uow = Idle
\* the effects of the step in which worker w ends a create_analysis
AnalysisCreated(w) ==
  /\ Len(analysis') = Len(analysis) + 1
  /\ \A a \in Ids(analysis) : analysis'[a] = analysis[a]
  /\ analysis'[Len(analysis')].evidence_id = sess[w].evidence_id
  /\ analysis'[Len(analysis')].created_by_user_id = sess[w].user
  /\ Len(audit_logs') = Len(audit_logs) + 1
  /\ \A i \in Ids(audit_logs) : audit_logs'[i] = audit_logs[i]
  /\ audit_logs'[Len(audit_logs')].action = "ANALYSIS_CREATED"
  /\ audit_logs'[Len(audit_logs')].actor_user_id = sess[w].user
  /\ audit_logs'[Len(audit_logs')].evidence_id = sess[w].evidence_id
  /\ audit_logs'[Len(audit_logs')].prev_hash_hex =
       TailHash(audit_logs, sess[w].evidence_id)
  /\ UNCHANGED <<evidence, evidence_files, custody, transfers>>
C25_Step ==
  \A w \in Workers :
     (sess[w].op = "create_analysis" /\ sess'[w] = Idle)
     => IsHolder(sess[w].user, sess[w].evidence_id) /\ AnalysisCreated(w)
Pending(t) == transfers[t].status = "PENDING"
\* worker w ends an accept, cancel or reject of transfer t in this step
Resolves(w, t) ==
  /\ sess[w].op \in {"accept_transfer", "cancel_transfer", "reject_transfer"}
  /\ sess'[w] = Idle
  /\ sess[w].transfer_id = t
\* a PENDING transfer leaves PENDING only by a resolution that names it
C26_OnlyResolved ==
  \A t \in Ids(transfers) :
     (Pending(t) /\ transfers'[t].status # "PENDING")
     => \E w \in Workers : Resolves(w, t)
\* while a transfer of item e is PENDING no request for e commits a transfer,
\* and the holder's request for an existing recipient is answered 400
C26_RequestsFail ==
  \A t \in Ids(transfers), e \in Ids(evidence) :
     (Pending(t) /\ transfers[t].evidence_id = e)
     => /\ \A u \in Users, to \in Users :
              LET r == request_transfer_read(u, [evidence_id |-> e, to_user_id |-> to,
                                                 reason |-> "handover"])
              IN  /\ r.code # 200 /\ r.uow = Idle
                  /\ IsHolder(u, e) => r.code = 400
        /\ \A w \in Workers :
              (RequestCommits(w) /\ sess[w].evidence_id = e) => transfers' = transfers
RowsOf(logs, e) == {i \in Ids(logs) : logs[i].evidence_id = e}
C27_Step ==
  /\ \A i \in Ids(audit_logs) : i \in Ids(audit_logs') /\ audit_logs'[i] = audit_logs[i]
  /\ \A e \in Ids(evidence') :
        /\ RowsOf(audit_logs, e) \subseteq RowsOf(audit_logs', e)
        /\ \A i \in RowsOf(audit_logs', e) \ RowsOf(audit_logs, e) :
              \A j \in RowsOf(audit_logs, e) : j < i
        /\ \A i \in RowsOf(audit_logs, e) : audit_logs'[i] = audit_logs[i]
(* C27: the audit ledger is append-only: across every step of every        *)
(* request the ledger of each evidence item after the step has its ledger  *)
(* before the step as a prefix: the entries keep their id, actor, action,  *)
(* details, timestamp, prev_hash and entry_hash, and none is removed or    *)
(* reordered.                                                              *)
C27_AppendOnly == [][C27_Step]_vars
\* a ledger that has grown by a request, its cancellation and an analysis
C27_Witness ==
  /\ Len(audit_logs) = 4
  /\ \E i \in Ids(audit_logs) : audit_logs[i].action = "TRANSFER_CANCELLED"
  /\ \E i \in Ids(audit_logs) : audit_logs[i].action = "ANALYSIS_CREATED"


(***************************************************************************)
(* Reading the ledger.                                                     *)
(***************************************************************************)
ReadOps == {"get_audit_log", "verify_audit_chain"}
C28_OpenToAll ==
  \A u \in AllUsers, e \in Ids(evidence) :
     /\ get_audit_log(u, e).code = 200
     /\ get_audit_log(u, e).total_entries = Len(LedgerIds(audit_logs, e))
     /\ verify_audit_chain_read(u, e).code = 200
C28_Step ==
  /\ sess'[Reader].op \in ReadOps /\ clock' = clock =>
       /\ UNCHANGED <<evidence, evidence_files, custody, transfers, audit_logs>>
       /\ UNCHANGED <<analysis, analysis_files, storage, op_count>>
       /\ sess'[Reader].evidence_id \in Ids(evidence) => sess'[Reader].code = 200
  /\ /\ sess[Reader].op = "verify_audit_chain" /\ sess[Reader].code = 200
     /\ sess'[Reader].op = "verify_audit_chain"
     /\ sess'[Reader].evidence_id = sess[Reader].evidence_id
     => /\ sess'[Reader].code = 200
        /\ sess'[Reader].result = sess[Reader].result

(* C28: get_audit_log and verify_audit_chain answer 200 to a caller of any *)
(* role for every existing evidence item; a step in which either of them   *)
(* answers changes no evidence, custody, transfer, file, analysis or audit *)
(* row and no stored blob (so it appends no audit entry); and a            *)
(* verify_audit_chain call that follows another one for the same item,     *)
(* with no request served in between, returns the same result.             *)
C28_ReadOnly == []C28_OpenToAll /\ [][C28_Step]_vars

\* The administrator has had a two-entry ledger verified
C28_Witness ==
  /\ sess[Reader].op = "verify_audit_chain"
  /\ sess[Reader].user = AdminUser
  /\ sess[Reader].code = 200
  /\ sess[Reader].result.total_entries = 2
  /\ sess[Reader].result.chain_valid
  /\ Len(evidence) = 1


\* The validity of the i-th entry of item e's ledger, from the stored columns
LinkedAndHashed(logs, ids, i) ==
  LET log == logs[ids[i]]
  IN  /\ log.prev_hash_hex =
           (IF i = 1 THEN GenesisHash ELSE logs[ids[i - 1]].entry_hash_hex)
      /\ log.entry_hash_hex = compute_entry_hash(log.prev_hash_hex, StoredEntryData(log))
WalkedToTheEnd(logs, e) ==
  LET ids == LedgerIds(logs, e)
      answer == verify_audit_chain(logs, e)
      details == answer.verification_details
  IN  /\ answer.total_entries = Len(ids)
      /\ Len(details) = Len(ids)
      /\ \A i \in 1..Len(ids) :
            /\ details[i].entry_id = ids[i]
            /\ details[i].sequence = i
            /\ i > 1 => details[i - 1].entry_id < details[i].entry_id
            /\ details[i].entry_valid <=> LinkedAndHashed(logs, ids, i)
      /\ answer.chain_valid <=> \A i \in 1..Len(details) : details[i].entry_valid
      /\ Len(ids) = 0 => answer.chain_valid
\* The columns changed: the one that moves a row to another ledger, one of
\* the payload, and the two hashes
WalkFields == {"evidence_id", "action", "prev_hash_hex", "entry_hash_hex"}

(* C29: on the ledger the handlers wrote and on every ledger with the      *)
(* evidence id, the action or a hash of one row changed,                   *)
(* verify_audit_chain returns for every evidence item one result           *)
(* per entry of the item's ledger, in insertion order; the i-th result is  *)
(* valid exactly when the entry's stored prev_hash is the stored           *)
(* entry_hash of the entry before it ("" for the first) and its stored     *)
(* entry_hash is the hash recomputed from its stored prev_hash and         *)
(* payload; chain_valid is the conjunction of the per-entry validities,    *)
(* and is true for a ledger without entries.                               *)
C29_FullWalk ==
  \A e \in Ids(evidence) :
     /\ WalkedToTheEnd(audit_logs, e)
     /\ \A id \in Ids(audit_logs), field \in WalkFields :
           \A value \in TamperValues(audit_logs, id, field) :
              WalkedToTheEnd(TamperField(audit_logs, id, field, value), e)

\* An item's two-entry ledger whose first entry was altered: the walk
\* reports the first entry invalid and goes on to report the second valid;
\* and another item, whose only entry was moved away, verifies as empty
C29_Witness ==
  \E e \in Ids(evidence), other \in Ids(evidence) :
     /\ Len(LedgerIds(audit_logs, e)) = 2
     /\ Len(LedgerIds(audit_logs, other)) = 1
     /\ \E logs \in { TamperField(audit_logs, LedgerIds(audit_logs, other)[1],
                                    "evidence_id", e) } :
           /\ verify_audit_chain(logs, other).total_entries = 0
           /\ verify_audit_chain(logs, other).verification_details = <<>>
           /\ verify_audit_chain(logs, other).chain_valid
     /\ \E value \in TamperValues(audit_logs, LedgerIds(audit_logs, e)[1], "action") :
           LET logs == TamperField(audit_logs, LedgerIds(audit_logs, e)[1],
                                   "action", value)
               answer == verify_audit_chain(logs, e)
           IN  /\ answer.total_entries = 2
               /\ ~answer.chain_valid
               /\ ~answer.verification_details[1].entry_valid
               /\ answer.verification_details[2].entry_valid


(***************************************************************************)
(* One chain per evidence item.                                            *)
(***************************************************************************)
\* Every entry after an item's first points at an earlier entry of the same
\* item, and at no entry of another item
C30_SameItemLinks ==
  \A e \in Ids(evidence) :
     LET ids == LedgerIds(audit_logs, e)
     IN  \A i \in 2..Len(ids) :
            /\ \E j \in 1..(i - 1) :
                  audit_logs[ids[j]].entry_hash_hex = audit_logs[ids[i]].prev_hash_hex
            /\ \A k \in Ids(audit_logs) :
                  audit_logs[k].evidence_id # e =>
                    audit_logs[k].entry_hash_hex # audit_logs[ids[i]].prev_hash_hex
\* A step leaves alone the ledger of every item no request completed on
C30_Step ==
  \A b \in Ids(evidence) :
     op_count'[b] = op_count[b] =>
       /\ LedgerIds(audit_logs', b) = LedgerIds(audit_logs, b)
       /\ verify_audit_chain(audit_logs', b) = verify_audit_chain(audit_logs, b)

(* C30: with two workers handling requests on two evidence items in any    *)
(* interleaving of their read parts and commits, a step that completes no  *)
(* request on an item appends nothing to that item's ledger and leaves its *)
(* verification result as it was; and every entry after an item's first    *)
(* has as prev_hash the entry_hash of an earlier entry of the same item,   *)
(* which is the entry_hash of no entry of another item.                    *)
C30_ScopedPerItem == []C30_SameItemLinks /\ [][C30_Step]_vars

\* The entries of two items alternate in the table, the second entry of
\* item 1 written after item 2 was created, while a worker is in the middle
\* of a transfer request on item 2
C30_Witness ==
  /\ LedgerIds(audit_logs, 1) = <<1, 3>>
  /\ LedgerIds(audit_logs, 2) = <<2>>
  /\ audit_logs[3].prev_hash_hex = audit_logs[1].entry_hash_hex
  /\ \E w \in Workers :
        /\ sess[w].op = "request_transfer"
        /\ sess[w].evidence_id = 2


(***************************************************************************)
(* Custody and the record of the hand-overs.                               *)
(***************************************************************************)
Creator(e) == evidence[e].collected_by_user_id
AcceptedTransfers(e) ==
  {t \in Ids(transfers) : transfers[t].evidence_id = e /\ transfers[t].status = "ACCEPTED"}
\* The ledger row that records the acceptance of transfer t (0: none); the
\* ids of these rows give the order of acceptance
AcceptanceRow(t) ==
  FirstId({i \in Ids(audit_logs) :
             /\ audit_logs[i].action = "TRANSFER_ACCEPTED"
             /\ JsonLoads(audit_logs[i].details_json).transfer_id = t})
AcceptedBefore(e, t) ==
  {s \in AcceptedTransfers(e) : AcceptanceRow(s) < AcceptanceRow(t)}
\* The ACCEPTED transfer of e accepted last among those of the set ts
LastAccepted(ts) ==
  CHOOSE t \in ts : \A s \in ts : AcceptanceRow(s) <= AcceptanceRow(t)

(* C31: for every evidence item, every ACCEPTED transfer has its            *)
(* acceptance in the ledger; taken in that order the first one's from_user *)
(* is the creator, each later one's from_user is the to_user of the one    *)
(* before it, and the holder is the to_user of the last one, or the        *)
(* creator when there is none.                                             *)
C31_CustodyContinuity ==
  \A e \in Ids(evidence) :
     /\ \A t \in AcceptedTransfers(e) :
           /\ AcceptanceRow(t) # 0
           /\ transfers[t].from_user_id =
                IF AcceptedBefore(e, t) = {} THEN Creator(e)
                ELSE transfers[LastAccepted(AcceptedBefore(e, t))].to_user_id
     /\ \A c \in CustodyRowsOf(e) :
           custody[c].current_user_id =
             IF AcceptedTransfers(e) = {} THEN Creator(e)
             ELSE transfers[LastAccepted(AcceptedTransfers(e))].to_user_id


(* C32: in every reachable state the from_user of every PENDING transfer   *)
(* is the holder named by the Custody row of the transfer's evidence item. *)
C32_PendingFromHolder ==
  \A t \in Ids(transfers) :
     Pending(t) => IsHolder(transfers[t].from_user_id, transfers[t].evidence_id)


(***************************************************************************)
(* The ledger entries of a transfer.                                       *)
(***************************************************************************)
ResolutionTags == {"TRANSFER_ACCEPTED", "TRANSFER_CANCELLED", "TRANSFER_REJECTED"}
\* The rows of the ledger of transfer t's item that carry one of the tags and
\* name transfer t
EntriesOf(t, tags) ==
  {i \in Ids(audit_logs) :
     /\ audit_logs[i].evidence_id = transfers[t].evidence_id
     /\ audit_logs[i].action \in tags
     /\ JsonLoads(audit_logs[i].details_json).transfer_id = t}

(* C33: in every reachable state, for every transfer, the ledger of its    *)
(* item holds exactly one TRANSFER_REQUESTED entry naming it and at most   *)
(* one resolution entry (TRANSFER_ACCEPTED, TRANSFER_CANCELLED or          *)
(* TRANSFER_REJECTED), which comes after the request entry; a resolution   *)
(* entry is there exactly when the status is not PENDING, and the status   *)
(* is ACCEPTED for TRANSFER_ACCEPTED and CANCELLED for the other two.      *)
C33_OneRequestOneResolution ==
  \A t \in Ids(transfers) :
     LET requested == EntriesOf(t, {"TRANSFER_REQUESTED"})
         resolved == EntriesOf(t, ResolutionTags)
     IN  /\ Cardinality(requested) = 1
         /\ Cardinality(resolved) <= 1
         /\ \A i \in resolved, j \in requested : j < i
         /\ resolved # {} <=> ~Pending(t)
         /\ \A i \in resolved :
               transfers[t].status =
                 IF audit_logs[i].action = "TRANSFER_ACCEPTED" THEN "ACCEPTED"
                 ELSE "CANCELLED"


(***************************************************************************)
(* The custodian read off the ledger.                                      *)
(***************************************************************************)
\* The holder of item e implied by the ledger rows with an id below bound:
\* the actor of the last TRANSFER_ACCEPTED among them, else the actor of
\* EVIDENCE_CREATED (NoUser when there is neither)
ImpliedHolder(e, bound) ==
  LET rows == {i \in RowsOf(audit_logs, e) : i < bound}
      accepted == {i \in rows : audit_logs[i].action = "TRANSFER_ACCEPTED"}
      created == {i \in rows : audit_logs[i].action = "EVIDENCE_CREATED"}
  IN  IF accepted # {} THEN audit_logs[LastId(accepted)].actor_user_id
      ELSE IF created # {} THEN audit_logs[FirstId(created)].actor_user_id
      ELSE NoUser

CustodianTags == {"FILE_DOWNLOADED", "ANALYSIS_CREATED", "TRANSFER_REQUESTED"}
(* C35: in every reachable state, under any interleaving, the actor of     *)
(* every FILE_DOWNLOADED, ANALYSIS_CREATED and TRANSFER_REQUESTED entry is *)
(* the holder implied by the entries before it in the same ledger: the     *)
(* actor of the latest TRANSFER_ACCEPTED before it, else the creator.      *)
C35_WrittenByCustodian ==
  \A i \in Ids(audit_logs) :
     audit_logs[i].action \in CustodianTags =>
       audit_logs[i].actor_user_id = ImpliedHolder(audit_logs[i].evidence_id, i)


(* C36: in every reachable state, under any interleaving of accept, cancel *)
(* and reject, a transfer's accepted_at_utc is set exactly when its status *)
(* is ACCEPTED.                                                            *)
C36_AcceptedAtIffAccepted ==
  \A t \in Ids(transfers) :
     transfers[t].accepted_at_utc # NoneDt <=> transfers[t].status = "ACCEPTED"


(***************************************************************************)
(* No item stays blocked.                                                  *)
(***************************************************************************)
\* The parties of a PENDING transfer can resolve it: each of the three
\* requests would be answered 200
PartiesCanResolve(t) ==
  /\ cancel_transfer_read(transfers[t].from_user_id, t).code = 200
  /\ accept_transfer_read(transfers[t].to_user_id, t).code = 200
  /\ reject_transfer_read(transfers[t].to_user_id, t).code = 200
\* The holder of item e can start a transfer to every existing user
HolderCanRequest(e) ==
  \A c \in CustodyRowsOf(e), to \in AllUsers, reason \in Reasons :
     request_transfer_read(custody[c].current_user_id,
                           [evidence_id |-> e, to_user_id |-> to,
                            reason |-> reason]).code = 200
C37_Enabled ==
  /\ \A t \in Ids(transfers) : Pending(t) => PartiesCanResolve(t)
  /\ \A e \in Ids(evidence) : PendingOf(e) = {} => HolderCanRequest(e)
\* Item e, once created, is in a state where its holder can start a transfer
C37_Free(e) == e \in Ids(evidence) => PendingOf(e) = {} /\ HolderCanRequest(e)

(* C37: in every reachable state, the sender of a PENDING transfer can     *)
(* cancel it and its recipient can accept or reject it, and the holder of  *)
(* an item without a PENDING transfer can request a transfer to every      *)
(* existing user; and when every transfer that can be resolved eventually  *)
(* is, every item is again and again in a state where its holder can start *)
(* a new transfer.                                                         *)
C37_NeverBlocked == []C37_Enabled /\ \A e \in 1..Cardinality(RacedCaseNos) : []<>C37_Free(e)

\* A transfer of the item was resolved and the next one is PENDING
C37_Witness ==
  /\ Len(transfers) = 2
  /\ ~Pending(1) /\ Pending(2)
  /\ transfers[1].evidence_id = transfers[2].evidence_id
  /\ transfers[2].from_user_id # transfers[2].to_user_id
  /\ PartiesCanResolve(2)


(***************************************************************************)
(* Rows deleted from the ledger.                                           *)
(***************************************************************************)
\* The audit_logs table after the rows with the ids in removed were deleted:
\* the rows left, in id order
WithoutRows(logs, removed) ==
  LET kept == SelectIds(Ids(logs) \ removed)
  IN  [k \in 1..Len(kept) |-> logs[kept[k]]]
\* The ids of the last n rows of item e's ledger
TrailingRows(logs, e, n) ==
  LET ids == LedgerIds(logs, e)
  IN  {ids[k] : k \in (Len(ids) - n + 1)..Len(ids)}

(* C38: for every evidence item whose ledger verifies as valid and has at  *)
(* least two entries, verify_audit_chain reports chain_valid = false on    *)
(* the ledger with any one entry but the last deleted, and chain_valid =   *)
(* true on the ledger with any number of its last entries deleted.         *)
C38_DeletionDetected ==
  \A e \in Ids(evidence) :
     LET ids == LedgerIds(audit_logs, e)
     IN  (verify_audit_chain(audit_logs, e).chain_valid /\ Len(ids) >= 2) =>
           /\ \A k \in 1..(Len(ids) - 1) :
                 ~verify_audit_chain(WithoutRows(audit_logs, {ids[k]}), e).chain_valid
           /\ \A n \in 1..Len(ids) :
                 verify_audit_chain(WithoutRows(audit_logs, TrailingRows(audit_logs, e, n)),
                                    e).chain_valid

\* A valid three-entry ledger: without its middle entry the entry after the
\* gap has a good hash and a prev_hash that no longer matches, and without
\* its last two entries the chain is valid with one entry
C38_Witness ==
  \E e \in Ids(evidence) :
     LET ids == LedgerIds(audit_logs, e)
         gap == verify_audit_chain(WithoutRows(audit_logs, {ids[2]}), e)
         cut == verify_audit_chain(WithoutRows(audit_logs, TrailingRows(audit_logs, e, 2)), e)
     IN  /\ Len(ids) = 3
         /\ verify_audit_chain(audit_logs, e).chain_valid
         /\ gap.total_entries = 2 /\ ~gap.chain_valid
         /\ gap.verification_details[1].entry_valid
         /\ gap.verification_details[2].entry_hash_valid
         /\ ~gap.verification_details[2].prev_hash_valid
         /\ cut.total_entries = 1 /\ cut.chain_valid


\* ---------------------------------------------------------------------------
\* C39 (NOT what the code does): no transfer row has to_user_id equal to its
\* from_user_id, and no TRANSFER_ACCEPTED entry is written by the user who
\* requested the transfer it accepts, i.e. no acceptance leaves the holder
\* unchanged.  request_transfer never compares to_user_id with the caller
\* (transfer.py 43-87) and TransferRequest has no validator (schemas 7-10), so
\* a holder can name themself, and can_accept_transfer (23-25) then lets them
\* accept their own request.
SelfTransfer(t) == transfers[t].to_user_id = transfers[t].from_user_id

C39_NoSelfTransfer ==
  /\ \A t \in Ids(transfers) : ~SelfTransfer(t)
  /\ \A i \in Ids(audit_logs) :
        audit_logs[i].action = "TRANSFER_ACCEPTED" =>
           ~SelfTransfer(audit_logs[i].details.transfer_id)

\* The second half alone: no self-transfer is ever accepted.
C39_NoSelfAcceptance ==
  \A t \in Ids(transfers) : transfers[t].status = "ACCEPTED" => ~SelfTransfer(t)

=============================================================================
